---------------------------- MODULE Spec2Model ----------------------------
(***************************************************************************)
(* A model of the LaserTuner backend (hancistudio/lasertuner):              *)
(*   - MLPredictionService (src/backend/ml_prediction.py): the data-backed  *)
(*     predictor predict_from_data and its helpers, and the service's       *)
(*     get_fallback_prediction;                                             *)
(*   - the static diode algorithm of src/backend/main.py.                   *)
(*                                                                         *)
(* Python's float arithmetic is modelled by exact rational arithmetic on    *)
(* integers: a value v is carried as a numerator and a denominator, and a   *)
(* round() is decided by comparing cross products.  TLC's integers are 32   *)
(* bits wide, so the products are computed on naturals held as little       *)
(* endian digit sequences (base Base).  Where the exact value is a tie      *)
(* (x.5) the model rounds half to even, as round() does on a float that     *)
(* holds the tie exactly; on a tie at one decimal of a power percentage a   *)
(* float may fall one tenth to either side.                                 *)
(***************************************************************************)
EXTENDS Integers, Sequences, FiniteSets, TLC

(***************************************************************************)
(* Bounds of the model.                                                    *)
(***************************************************************************)
\* The largest candidate pool handed to predict_from_data.
MaxPool == 5

(***************************************************************************)
(* Exact arithmetic on naturals of any size.                               *)
(***************************************************************************)
\* The digit base of the long naturals.
Base == 100 * 100

Max(a, b) == IF a >= b THEN a ELSE b

Min(a, b) == IF a <= b THEN a ELSE b

Abs(a) == IF a >= 0 THEN a ELSE -a

\* The long natural of a non-negative integer.
RECURSIVE BigOf(_)
BigOf(n) == IF n = 0 THEN << >> ELSE << n % Base >> \o BigOf(n \div Base)

\* a * k + carry, for a long natural a and integers 0 <= k, carry < Base * 10.
RECURSIVE BigMulSmall(_, _, _)
BigMulSmall(a, k, carry) ==
    IF a = << >>
    THEN BigOf(carry)
    ELSE LET v == a[1] * k + carry
         IN  << v % Base >> \o BigMulSmall(Tail(a), k, v \div Base)

\* a + b + carry for long naturals a, b.
RECURSIVE BigAdd(_, _, _)
BigAdd(a, b, carry) ==
    IF a = << >> /\ b = << >>
    THEN BigOf(carry)
    ELSE LET x == IF a = << >> THEN 0 ELSE a[1]
             y == IF b = << >> THEN 0 ELSE b[1]
             v == x + y + carry
         IN  << v % Base >>
               \o BigAdd(IF a = << >> THEN a ELSE Tail(a),
                         IF b = << >> THEN b ELSE Tail(b), v \div Base)

\* Trailing (most significant) zero digits removed.
RECURSIVE BigTrim(_)
BigTrim(a) ==
    IF a = << >> THEN a
    ELSE IF a[Len(a)] = 0 THEN BigTrim(SubSeq(a, 1, Len(a) - 1)) ELSE a

\* a * b for long naturals.
RECURSIVE BigMul(_, _)
BigMul(a, b) ==
    IF b = << >> \/ a = << >>
    THEN << >>
    ELSE BigTrim(BigAdd(BigMulSmall(a, b[1], 0), << 0 >> \o BigMul(a, Tail(b)), 0))

\* The product of the long naturals of the integers of a sequence.
RECURSIVE BigProd(_)
BigProd(s) == IF s = << >> THEN << 1 >> ELSE BigMul(BigOf(s[1]), BigProd(Tail(s)))

\* a <= b for trimmed long naturals, decided from the most significant digit.
RECURSIVE BigLeq(_, _)
BigLeq(a, b) ==
    IF Len(a) # Len(b) THEN Len(a) < Len(b)
    ELSE IF a = << >> THEN TRUE
    ELSE IF a[Len(a)] # b[Len(b)] THEN a[Len(a)] < b[Len(b)]
    ELSE BigLeq(SubSeq(a, 1, Len(a) - 1), SubSeq(b, 1, Len(b) - 1))

\* a - b for long naturals with a >= b.
RECURSIVE BigSub(_, _, _)
BigSub(a, b, borrow) ==
    IF a = << >>
    THEN << >>
    ELSE LET y == IF b = << >> THEN 0 ELSE b[1]
             v == a[1] - y - borrow
         IN  << IF v < 0 THEN v + Base ELSE v >>
               \o BigSub(Tail(a), IF b = << >> THEN b ELSE Tail(b),
                         IF v < 0 THEN 1 ELSE 0)

\* n to the power k, as a long natural.
RECURSIVE BigPow(_, _)
BigPow(n, k) == IF k = 0 THEN << 1 >> ELSE BigMul(BigOf(n), BigPow(n, k - 1))

\* Whether r - 1/2 <= (num/den)^(1/k), for long naturals num and den > 0.
RootFits(r, k, num, den) ==
    BigLeq(BigMul(BigPow(2 * r - 1, k), den), BigMul(BigPow(2, k), num))

\* The largest r in lo..hi with RootFits, and lo when there is none.
RECURSIVE RootSearch(_, _, _, _, _)
RootSearch(lo, hi, k, num, den) ==
    IF lo >= hi
    THEN lo
    ELSE LET mid == (lo + hi + 1) \div 2
         IN  IF RootFits(mid, k, num, den)
             THEN RootSearch(mid, hi, k, num, den)
             ELSE RootSearch(lo, mid - 1, k, num, den)

\* round(max(lo, min(hi, (num/den)^(1/k)))), half to even, for lo >= 1.
ClampRoundRoot(lo, hi, k, num, den) ==
    LET r   == RootSearch(lo, hi, k, num, den)
        tie == /\ r > lo
               /\ BigLeq(BigMul(BigPow(2, k), num), BigMul(BigPow(2 * r - 1, k), den))
               /\ RootFits(r, k, num, den)
    IN  IF tie /\ r % 2 = 1 THEN r - 1 ELSE r

\* round(n / d) for integers n and d > 0, half to even.
RoundHalfEven(n, d) ==
    LET q == n \div d
        r == n % d
    IN  IF 2 * r < d THEN q
        ELSE IF 2 * r > d THEN q + 1
        ELSE IF q % 2 = 0 THEN q ELSE q + 1

\* round(max(lo, min(hi, n / d))): the bounds are whole, so the clamp and the
\* rounding commute.
ClampRound(lo, hi, n, d) == Max(lo, Min(hi, RoundHalfEven(n, d)))

(***************************************************************************)
(* Single precision floats (numpy float32): a float is a sign, a mantissa  *)
(* of MantissaBits bits and a binary exponent, and every operation rounds  *)
(* its exact result to the nearest float, a tie to the even mantissa.  The *)
(* values of the model are far from the overflow and underflow limits.     *)
(***************************************************************************)
\* The bits of the mantissa of a float32.
MantissaBits == 24

Float(sign, man, exp) == [ sign |-> sign, man |-> man, exp |-> exp ]

FloatZero == Float(0, 0, 0)

\* The least k >= 0 with low <= num * 2^k, for long naturals num > 0 and low.
RECURSIVE NormShift(_, _, _)
NormShift(num, low, k) ==
    IF BigLeq(low, num) THEN k ELSE NormShift(BigMulSmall(num, 2, 0), low, k + 1)

\* The float nearest to num / den, for long naturals with
\* 0 < num / den < 2^MantissaBits.
FloatRound(sign, num, den) ==
    LET k   == NormShift(num, BigMul(den, BigPow(2, MantissaBits - 1)), 0)
        man == ClampRoundRoot(2^(MantissaBits - 1), 2^MantissaBits, 1,
                              BigMul(num, BigPow(2, k)), den)
    IN  IF man = 2^MantissaBits
        THEN Float(sign, 2^(MantissaBits - 1), 1 - k)
        ELSE Float(sign, man, -k)

\* Long division of a fraction below 2^MantissaBits by doubling: from the
\* quotient q and the remainder r < d, with k doublings so far, until the
\* quotient has MantissaBits bits.
RECURSIVE FloatDivide(_, _, _, _)
FloatDivide(q, r, d, k) ==
    IF q >= 2^(MantissaBits - 1)
    THEN [ q |-> q, r |-> r, k |-> k ]
    ELSE IF 2 * r >= d
    THEN FloatDivide(2 * q + 1, 2 * r - d, d, k + 1)
    ELSE FloatDivide(2 * q, 2 * r, d, k + 1)

\* np.float32(n / d) for integers n and d > 0 with |n / d| < 2^MantissaBits.
FloatOf(n, d) ==
    IF n = 0 THEN FloatZero
    ELSE LET sign == IF n > 0 THEN 1 ELSE -1
             t    == FloatDivide(Abs(n) \div d, Abs(n) % d, d, 0)
             up   == \/ 2 * t.r > d
                     \/ 2 * t.r = d /\ t.q % 2 = 1
             man  == IF up THEN t.q + 1 ELSE t.q
         IN  IF man = 2^MantissaBits
             THEN Float(sign, 2^(MantissaBits - 1), 1 - t.k)
             ELSE Float(sign, man, -t.k)

\* x * c in float32, for a float x and a whole number c > 0.
FloatMul(x, c) ==
    IF x.sign = 0 THEN FloatZero
    ELSE IF x.exp >= 0
    THEN FloatRound(x.sign, BigMul(BigMulSmall(BigOf(x.man), c, 0), BigPow(2, x.exp)),
                    << 1 >>)
    ELSE FloatRound(x.sign, BigMulSmall(BigOf(x.man), c, 0), BigPow(2, -x.exp))

\* The sign of x - n / d (-1, 0 or 1), for a float x and integers n >= 0, d > 0.
FloatCompare(x, n, d) ==
    IF x.sign <= 0
    THEN (IF x.sign = 0 /\ n = 0 THEN 0 ELSE -1)
    ELSE LET left  == IF x.exp >= 0
                      THEN BigMul(BigMul(BigOf(x.man), BigOf(d)), BigPow(2, x.exp))
                      ELSE BigMul(BigOf(x.man), BigOf(d))
             right == IF x.exp >= 0 THEN BigOf(n) ELSE BigMul(BigOf(n), BigPow(2, -x.exp))
         IN  IF left = right THEN 0
             ELSE IF BigLeq(left, right) THEN -1 ELSE 1

\* np.clip(x, lo, hi) for a float x and whole numbers 0 < lo < hi.
FloatClip(x, lo, hi) ==
    IF FloatCompare(x, lo, 1) < 0 THEN FloatOf(lo, 1)
    ELSE IF FloatCompare(x, hi, 1) > 0 THEN FloatOf(hi, 1)
    ELSE x

\* round(x) of a float below 2^(MantissaBits - 1) in magnitude: the nearest
\* integer, half to even.
FloatRoundToInt(x) ==
    IF x.sign = 0 \/ -x.exp > 30 THEN 0
    ELSE x.sign * RoundHalfEven(x.man, 2^(-x.exp))

\* The sum of a sequence of integers.
RECURSIVE SumSeq(_)
SumSeq(s) == IF s = << >> THEN 0 ELSE s[1] + SumSeq(Tail(s))

\* The set of the elements of a sequence.
Range(s) == { s[i] : i \in 1..Len(s) }

SetMax(S) == CHOOSE x \in S : \A y \in S : y <= x

SetMin(S) == CHOOSE x \in S : \A y \in S : x <= y

\* dict.get(key, default) on a record read as a dictionary.
Get(d, key, default) == IF key \in DOMAIN d THEN d[key] ELSE default

\* statistics.median, doubled: the middle value of the sorted list, or the sum
\* of the two middle values of a list of even length.
Median2(values) ==
    LET s == SortSeq(values, LAMBDA a, b : a < b)
        n == Len(s)
    IN  IF n % 2 = 1 THEN 2 * s[(n + 1) \div 2] ELSE s[n \div 2] + s[n \div 2 + 1]

(***************************************************************************)
(* Strings are sequences of one-character strings, so that lower(),        *)
(* strip() and the substring test can be computed.                         *)
(***************************************************************************)
UpperLetters == << "A", "B", "C", "D", "E", "F", "G", "H", "I", "J", "K", "L", "M",
                   "N", "O", "P", "Q", "R", "S", "T", "U", "V", "W", "X", "Y", "Z" >>

LowerLetters == << "a", "b", "c", "d", "e", "f", "g", "h", "i", "j", "k", "l", "m",
                   "n", "o", "p", "q", "r", "s", "t", "u", "v", "w", "x", "y", "z" >>

\* str.lower()
Lower(str) ==
    [ i \in 1..Len(str) |->
        IF \E j \in 1..Len(UpperLetters) : UpperLetters[j] = str[i]
        THEN LowerLetters[CHOOSE j \in 1..Len(UpperLetters) : UpperLetters[j] = str[i]]
        ELSE str[i] ]

(***************************************************************************)
(* MLPredictionService: its thresholds.                                    *)
(***************************************************************************)
min_data_points == 3

quality_threshold == 5

power_tolerance == 20

\* The provenance tags of gold standard data.
GoldSources == { "researcher", "researcher_import" }

\* The absent value None, and a present value, of an optional argument.
None == << >>

Some(v) == << v >>

\* Python's truth value of an optional number: None and 0 are false.
Truthy(opt) == opt # None /\ opt[1] # 0

(***************************************************************************)
(* Units.  A power percentage is carried in tenths of a percent (the code  *)
(* rounds it to one decimal), a speed and a pass count as whole numbers,   *)
(* a confidence in hundredths (the code rounds it to two decimals), a      *)
(* weight in quarters (quality + 0.5 * approvals, times 1.5).               *)
(***************************************************************************)

\* RelevantExperiments without the quality filter.
RelevantExperiments_AnyQuality(experiments, process_type) ==
    SelectSeq(experiments,
              LAMBDA exp : process_type \in DOMAIN Get(exp, "processes", << >>))

\* The records of the pool that have the process and a quality score of at
\* least quality_threshold for it.
RelevantExperiments(experiments, process_type) ==
    SelectSeq(experiments,
              LAMBDA exp :
                  /\ process_type \in DOMAIN Get(exp, "processes", << >>)
                  /\ Get(Get(exp, "qualityScores", << >>), process_type, 0)
                         >= quality_threshold)

IsGold(exp) ==
    /\ "dataSource" \in DOMAIN exp
    /\ exp["dataSource"] \in GoldSources

\* Weight4 from the votes alone, the quality score left out.
Weight4_VotesOnly(exp, process_type) ==
    LET approve_count == Get(exp, "approveCount", 0)
    IN  IF IsGold(exp) THEN 3 * approve_count ELSE 2 * approve_count

\* Four times the weight of a record: quality + approveCount * 0.5, times 1.5
\* for gold standard data.
Weight4(exp, process_type) ==
    LET quality       == Get(Get(exp, "qualityScores", << >>), process_type, 5)
        approve_count == Get(exp, "approveCount", 0)
    IN  IF IsGold(exp)
        THEN 6 * quality + 3 * approve_count
        ELSE 4 * quality + 2 * approve_count

Weights4(experiments, process_type) ==
    [ i \in 1..Len(experiments) |-> Weight4(experiments[i], process_type) ]

\* The values of one parameter (power, speed or passes) over the records.
ParamList(experiments, process_type, param) ==
    [ i \in 1..Len(experiments) |-> experiments[i]["processes"][process_type][param] ]

\* sum(v * w for v, w in zip(values, weights))
RECURSIVE WeightedSum(_, _)
WeightedSum(values, weights) ==
    IF values = << >>
    THEN 0
    ELSE values[1] * weights[1] + WeightedSum(Tail(values), Tail(weights))

total_weight(experiments, process_type) ==
    SumSeq(Weights4(experiments, process_type))

\* final = 0.7 * weighted average + 0.3 * median, times `scale`, clamped to
\* lo..hi and rounded: (14 * sum + 3 * median2 * total) * scale / (20 * total).
FinalParam(values, weights, scale, lo, hi) ==
    LET total == SumSeq(weights)
    IN  ClampRound(lo, hi,
                   (14 * WeightedSum(values, weights) + 3 * Median2(values) * total)
                       * scale,
                   20 * total)

\* _calculate_average_params with int() in place of round() for the passes.
calculate_average_params_Truncated(experiments, process_type) ==
    LET weights     == Weights4(experiments, process_type)
        powers      == ParamList(experiments, process_type, "power")
        speeds      == ParamList(experiments, process_type, "speed")
        passes_list == ParamList(experiments, process_type, "passes")
        avg_passes  == WeightedSum(passes_list, weights) \div SumSeq(weights)
    IN  [ power  |-> FinalParam(powers, weights, 10, 100, 1000),
          speed  |-> FinalParam(speeds, weights, 1, 50, 1000),
          passes |-> Max(1, Min(10, avg_passes)) ]

\* _calculate_average_params; the caller has checked total_weight # 0.
calculate_average_params(experiments, process_type) ==
    LET weights     == Weights4(experiments, process_type)
        powers      == ParamList(experiments, process_type, "power")
        speeds      == ParamList(experiments, process_type, "speed")
        passes_list == ParamList(experiments, process_type, "passes")
        avg_passes  == RoundHalfEven(WeightedSum(passes_list, weights), SumSeq(weights))
    IN  [ power  |-> FinalParam(powers, weights, 10, 100, 1000),
          speed  |-> FinalParam(speeds, weights, 1, 50, 1000),
          passes |-> Max(1, Min(10, avg_passes)) ]

\* The laser powers of the records, a missing one read as 0.
LaserPowers(experiments) ==
    [ i \in 1..Len(experiments) |-> Get(experiments[i], "laserPower", 0) ]

\* power_difference = abs(avg_source_power - target_power) if target_power else 0,
\* times the number of records (avg_source_power is their sum over their number).
PowerDifferenceN(experiments, target_power) ==
    IF Truthy(target_power)
    THEN Abs(SumSeq(LaserPowers(experiments)) - target_power[1] * Len(experiments))
    ELSE 0

\* The scaling decision with half the tolerance.
NeedsScaling_HalfTolerance(experiments, target_power) ==
    /\ Truthy(target_power)
    /\ 2 * PowerDifferenceN(experiments, target_power)
           > power_tolerance * Len(experiments)

\* target_power and power_difference > power_tolerance
NeedsScaling(experiments, target_power) ==
    /\ Truthy(target_power)
    /\ PowerDifferenceN(experiments, target_power) > power_tolerance * Len(experiments)

\* The passes of _scale_by_power with the threshold at 0.7.
scaled_passes_Below07(passes, source_num, target_num) ==
    IF 10 * target_num < 7 * source_num THEN passes + 1 ELSE passes

\* The passes of _scale_by_power: one more when power_ratio < 0.5.  The ratio is
\* target_num / source_num.
scaled_passes(passes, source_num, target_num) ==
    IF 2 * target_num < source_num THEN passes + 1 ELSE passes

\* _scale_by_power, for source_power = source_sum / n and target_power:
\* power / ratio^0.5 and speed * ratio^0.4 with ratio = target * n / source_sum.
scale_by_power(params, source_sum, n, target_power) ==
    IF source_sum <= 0 \/ target_power <= 0
    THEN params
    ELSE LET t == target_power * n
         IN  [ power  |-> ClampRoundRoot(100, 1000, 2,
                              BigProd(<< params.power, params.power, source_sum >>),
                              BigOf(t)),
               speed  |-> ClampRoundRoot(50, 1000, 5,
                              BigMul(BigPow(params.speed, 5), BigProd(<< t, t >>)),
                              BigProd(<< source_sum, source_sum >>)),
               passes |-> Max(1, Min(10, scaled_passes(params.passes, source_sum, t))) ]

\* The base confidence, in hundredths, from the number of data points.
base_confidence(data_points) ==
    IF data_points >= 50 THEN 90
    ELSE IF data_points >= 20 THEN 85
    ELSE IF data_points >= 10 THEN 75
    ELSE IF data_points >= 5 THEN 68
    ELSE 60

\* _calculate_variance as a fraction << numerator, denominator >>:
\* min(1, variance / avg^2) = min(1, (n * sum(x^2) - sum(x)^2) / sum(x)^2).
calculate_variance(values) ==
    LET n   == Len(values)
        sum == SumSeq(values)
        sq  == SumSeq([ i \in 1..n |-> values[i] * values[i] ])
    IN  IF n < 2 THEN << 0, 1 >>
        ELSE IF sum = 0 THEN << 1, 1 >>
        ELSE IF n * sq - sum * sum >= sum * sum THEN << 1, 1 >>
        ELSE << n * sq - sum * sum, sum * sum >>

\* consistency_factor = 1.0 - min(0.2, (power_variance + speed_variance) / 2),
\* as a fraction of long naturals.
consistency_factor(powers, speeds) ==
    LET pv  == calculate_variance(powers)
        sv  == calculate_variance(speeds)
        num == BigAdd(BigProd(<< pv[1], sv[2] >>), BigProd(<< sv[1], pv[2] >>), 0)
        den == BigProd(<< 2, pv[2], sv[2] >>)
    IN  IF BigLeq(BigTrim(den), BigTrim(BigMulSmall(num, 5, 0)))
        THEN << BigOf(4), BigOf(5) >>
        ELSE << BigTrim(BigSub(den, num, 0)), BigTrim(den) >>

\* The laser power diversity factor, in hundredths.
power_diversity_factor(experiments) ==
    LET laser_powers == Range(LaserPowers(experiments))
        power_range  == SetMax(laser_powers) - SetMin(laser_powers)
    IN  IF power_range < 20 THEN 100
        ELSE IF power_range < 50 THEN 90
        ELSE 75

\* The machine brand diversity factor, in hundredths.
brand_factor(experiments) ==
    LET unique_brands ==
            Cardinality({ Lower(Get(experiments[i], "machineBrand", << >>)) :
                              i \in 1..Len(experiments) })
    IN  IF unique_brands = 1 THEN 100
        ELSE IF unique_brands <= 3 THEN 90
        ELSE 80

\* No scaling penalty.
scaling_factor_None(was_scaled, power_difference_n, n) ==
    IF was_scaled /\ power_difference_n < 30 * n THEN 100 ELSE 100

\* The scaling penalty, in hundredths; the difference is given times n.
scaling_factor(was_scaled, power_difference_n, n) ==
    IF was_scaled
    THEN IF power_difference_n < 30 * n THEN 90
         ELSE IF power_difference_n < 60 * n THEN 80
         ELSE 70
    ELSE 100

gold_count(experiments) ==
    Cardinality({ i \in 1..Len(experiments) : IsGold(experiments[i]) })

\* _calculate_confidence without the final min(0.95, max(0.55, .)).
calculate_confidence_Unclamped(data_points, experiments, process_type, was_scaled, power_difference_n) ==
    LET n           == Len(experiments)
        qualities   == [ i \in 1..n |->
                           Get(Get(experiments[i], "qualityScores", << >>),
                               process_type, 5) ]
        consistency == consistency_factor(ParamList(experiments, process_type, "power"),
                                          ParamList(experiments, process_type, "speed"))
        num == BigMul(consistency[1],
                      BigProd(<< base_confidence(data_points),
                                 SumSeq(qualities),
                                 power_diversity_factor(experiments),
                                 brand_factor(experiments),
                                 scaling_factor(was_scaled, power_difference_n, n),
                                 10 * n + gold_count(experiments) >>))
        den == BigMul(consistency[2],
                      BigProd(<< 100, 10 * n, 100, 100, 100, 10 * n >>))
    IN  ClampRoundRoot(0, 200, 1, BigMulSmall(num, 100, 0), den)

\* _calculate_confidence, in hundredths.
calculate_confidence(data_points, experiments, process_type, was_scaled, power_difference_n) ==
    LET n           == Len(experiments)
        qualities   == [ i \in 1..n |->
                           Get(Get(experiments[i], "qualityScores", << >>),
                               process_type, 5) ]
        consistency == consistency_factor(ParamList(experiments, process_type, "power"),
                                          ParamList(experiments, process_type, "speed"))
        num == BigMul(consistency[1],
                      BigProd(<< base_confidence(data_points),
                                 SumSeq(qualities),
                                 power_diversity_factor(experiments),
                                 brand_factor(experiments),
                                 scaling_factor(was_scaled, power_difference_n, n),
                                 10 * n + gold_count(experiments) >>))
        den == BigMul(consistency[2],
                      BigProd(<< 100, 10 * n, 100, 100, 100, 10 * n >>))
    IN  ClampRoundRoot(55, 95, 1, BigMulSmall(num, 100, 0), den)

\* The tier label with the medium tier starting at the floor.
ConfidenceLabel_MediumFromFloor(conf) ==
    IF conf >= 80 THEN "Yuksek guvenilirlik"
    ELSE IF conf >= 55 THEN "Orta guvenilirlik"
    ELSE "Dusuk guvenilirlik"

\* The confidence tier label that opens the notes.
ConfidenceLabel(conf) ==
    IF conf >= 80 THEN "Yuksek guvenilirlik"
    ELSE IF conf >= 65 THEN "Orta guvenilirlik"
    ELSE "Dusuk guvenilirlik"

\* _generate_notes: the parts that the code joins with " | ".
generate_notes(data_points, conf, experiments, process_type, was_scaled, source_sum, target_power) ==
    LET n         == Len(experiments)
        qualities == [ i \in 1..n |->
                         Get(Get(experiments[i], "qualityScores", << >>),
                             process_type, 5) ]
        gold      == gold_count(experiments)
        brands    == { Get(experiments[i], "machineBrand",
                           << "U", "n", "k", "n", "o", "w", "n" >>) : i \in 1..n }
    IN  << [ part |-> "confidence", text |-> ConfidenceLabel(conf) ],
           [ part |-> "data", data_points |-> data_points ] >>
        \o (IF was_scaled /\ Truthy(target_power) /\ source_sum # 0
            THEN << [ part   |-> "scaling",
                      source |-> RoundHalfEven(source_sum, n),
                      target |-> target_power[1] ] >>
            ELSE << >>)
        \o << [ part |-> "quality",
                avg_quality |-> RoundHalfEven(10 * SumSeq(qualities), n) ] >>
        \o (IF gold > 0 THEN << [ part |-> "gold", gold_count |-> gold ] >> ELSE << >>)
        \o (IF Cardinality(brands) > 3
            THEN << [ part |-> "brands", brands |-> Cardinality(brands) ] >>
            ELSE << >>)

\* Whether the notes hold the scaling entry.
HasScalingNote(ns) == \E i \in 1..Len(ns) : ns[i].part = "scaling"

(***************************************************************************)
(* The static diode algorithm of main.py.  A thickness is carried in       *)
(* tenths of a millimetre, power_mult and passes_mult in tenths.           *)
(***************************************************************************)
MaterialParams(base_power, power_mult, base_speed, speed_mult, base_passes, passes_mult) ==
    [ base_power |-> base_power, power_mult |-> power_mult,
      base_speed |-> base_speed, speed_mult |-> speed_mult,
      base_passes |-> base_passes, passes_mult |-> passes_mult ]

\* The table of get_diode_material_params, in the order of the dictionary.
\* "sh" stands for the letter s with a cedilla.
MaterialTable ==
    <<
       << << "a", "h", "sh", "a", "p" >>,
          MaterialParams(80, 40, 300, 30, 2, 5) >>,
       << << "a", "h", "s", "a", "p" >>,
          MaterialParams(80, 40, 300, 30, 2, 5) >>,
       << << "w", "o", "o", "d" >>,
          MaterialParams(80, 40, 300, 30, 2, 5) >>,
       << << "k", "o", "n", "t", "r", "p", "l", "a", "k" >>,
          MaterialParams(82, 42, 290, 32, 2, 5) >>,
       << << "p", "l", "y", "w", "o", "o", "d" >>,
          MaterialParams(82, 42, 290, 32, 2, 5) >>,
       << << "m", "d", "f" >>,
          MaterialParams(85, 45, 280, 35, 2, 6) >>,
       << << "b", "a", "l", "s", "a" >>,
          MaterialParams(60, 25, 380, 20, 1, 3) >>,
       << << "b", "a", "m", "b", "u" >>,
          MaterialParams(85, 45, 280, 35, 2, 6) >>,
       << << "b", "a", "m", "b", "o", "o" >>,
          MaterialParams(85, 45, 280, 35, 2, 6) >>,
       << << "l", "a", "d", "i", "n" >>,
          MaterialParams(75, 35, 320, 28, 2, 4) >>,
       << << "s", "p", "r", "u", "c", "e" >>,
          MaterialParams(75, 35, 320, 28, 2, 4) >>,
       << << "f", "i", "r" >>,
          MaterialParams(75, 35, 320, 28, 2, 4) >>,
       << << "d", "e", "r", "i" >>,
          MaterialParams(70, 35, 350, 28, 1, 4) >>,
       << << "l", "e", "a", "t", "h", "e", "r" >>,
          MaterialParams(70, 35, 350, 28, 1, 4) >>,
       << << "a", "k", "r", "i", "l", "i", "k" >>,
          MaterialParams(75, 40, 280, 30, 2, 5) >>,
       << << "a", "c", "r", "y", "l", "i", "c" >>,
          MaterialParams(75, 40, 280, 30, 2, 5) >>,
       << << "p", "l", "e", "x", "i", "g", "l", "a", "s", "s" >>,
          MaterialParams(75, 40, 280, 30, 2, 5) >>,
       << << "p", "l", "e", "k", "s", "i", "g", "l", "a", "s" >>,
          MaterialParams(75, 40, 280, 30, 2, 5) >>,
       << << "p", "m", "m", "a" >>,
          MaterialParams(75, 40, 280, 30, 2, 5) >>
    >>

\* The parameters of a material that matches no key.
DefaultMaterialParams == MaterialParams(75, 35, 320, 25, 2, 4)

\* str.strip(): leading and trailing blanks removed.
RECURSIVE Strip(_)
Strip(str) ==
    IF str = << >> THEN str
    ELSE IF str[1] = " " THEN Strip(Tail(str))
    ELSE IF str[Len(str)] = " " THEN Strip(SubSeq(str, 1, Len(str) - 1))
    ELSE str

\* a in b: a is a substring of b.
Contains(b, a) ==
    \E i \in 0..(Len(b) - Len(a)) : SubSeq(b, i + 1, i + Len(a)) = a

\* Whether the lowered and stripped material matches a row of the table: the
\* key itself, or a key that contains it or that it contains.
ExactMatches(material) ==
    { i \in 1..Len(MaterialTable) : MaterialTable[i][1] = material }

SubstringMatches(material) ==
    { i \in 1..Len(MaterialTable) :
          \/ Contains(material, MaterialTable[i][1])
          \/ Contains(MaterialTable[i][1], material) }

\* get_diode_material_params
get_diode_material_params(material_type) ==
    LET material == Strip(Lower(material_type))
    IN  IF ExactMatches(material) # { }
        THEN MaterialTable[SetMin(ExactMatches(material))][2]
        ELSE IF SubstringMatches(material) # { }
        THEN MaterialTable[SetMin(SubstringMatches(material))][2]
        ELSE DefaultMaterialParams

\* The constructor of the pydantic model ProcessParams: power in 5..100 (tenths
\* here), speed in 50..500, passes in 1..20, or a validation error.
ProcessParams(power, speed, passes) ==
    IF /\ 50 <= power /\ power <= 1000
       /\ 50 <= speed /\ speed <= 500
       /\ 1 <= passes /\ passes <= 20
    THEN [ status |-> "ok",
           params |-> [ power |-> power, speed |-> speed, passes |-> passes ] ]
    ELSE [ status |-> "ValidationError", params |-> None ]

\* int(): truncation toward zero of n / d, for d > 0.
Trunc(n, d) == IF n >= 0 THEN n \div d ELSE -((-n) \div d)

\* calculate_diode_cutting_params without the lower clamp of the speed.
calculate_diode_cutting_params_NoSpeedFloor(material, thickness) ==
    LET params == get_diode_material_params(material)
    IN  ProcessParams(
            ClampRound(100, 1000,
                       100 * params.base_power + thickness * params.power_mult, 10),
            ClampRound(-500, 500,
                       10 * params.base_speed - thickness * params.speed_mult, 10),
            Max(1, Min(20, params.base_passes
                              + Trunc(thickness * params.passes_mult, 100))))

calculate_diode_cutting_params(material, thickness) ==
    LET params == get_diode_material_params(material)
    IN  ProcessParams(
            ClampRound(100, 1000,
                       100 * params.base_power + thickness * params.power_mult, 10),
            ClampRound(50, 500,
                       10 * params.base_speed - thickness * params.speed_mult, 10),
            Max(1, Min(20, params.base_passes
                              + Trunc(thickness * params.passes_mult, 100))))

calculate_diode_engraving_params(material, thickness) ==
    LET params == get_diode_material_params(material)
    IN  ProcessParams(
            ClampRound(100, 1000, 50 * params.base_power + 15 * thickness, 10),
            Max(100, Min(500, params.base_speed + 100)),
            1)

calculate_diode_scoring_params(material, thickness) ==
    LET params == get_diode_material_params(material)
    IN  ProcessParams(
            ClampRound(100, 1000, 70 * params.base_power + 25 * thickness, 10),
            Max(80, Min(500, params.base_speed + 50)),
            Max(1, Min(10, Max(1, Trunc(3 * thickness, 100)))))

\* The module-level functions that main.py defines for the static algorithm.
MainFunctions ==
    { "get_diode_material_params", "calculate_diode_cutting_params",
      "calculate_diode_engraving_params", "calculate_diode_scoring_params" }

\* The names that get_fallback_prediction imports from main.
FallbackImports ==
    { "calculate_cutting_params", "calculate_engraving_params",
      "calculate_scoring_params" }

\* The static algorithm for one process, as the /predict handler's fallback
\* loop calls it.
static_params(material, thickness, process) ==
    IF process = "cutting" THEN calculate_diode_cutting_params(material, thickness)
    ELSE IF process = "engraving"
    THEN calculate_diode_engraving_params(material, thickness)
    ELSE IF process = "scoring"
    THEN calculate_diode_scoring_params(material, thickness)
    ELSE ProcessParams(500, 300, 2)

\* MLPredictionService.get_fallback_prediction: `from main import ...` comes
\* first and raises ImportError when main does not define an imported name.
fallback_prediction(material, thickness, process) ==
    IF ~(FallbackImports \subseteq MainFunctions)
    THEN [ status |-> "ImportError", params |-> None ]
    ELSE IF process \in { "cutting", "engraving", "scoring" }
    THEN static_params(material, thickness, process)
    ELSE [ status |-> "ok", params |-> [ power |-> 500, speed |-> 300, passes |-> 1 ] ]


(***************************************************************************)
(* MaterialFeatureEncoder (ml_feature_engineering.py).  A material          *)
(* property is carried in hundredths, a thickness in tenths of a            *)
(* millimetre, a target power in tenths of a percent; the features and the *)
(* normalized targets are float32 values.  "U+00C5" and the like stand for *)
(* the letters of the table's keys outside ASCII.                          *)
(***************************************************************************)
MaterialProperties(density, thermal, melt, absorb) ==
    [ density |-> density, thermal |-> thermal, melt |-> melt, absorb |-> absorb ]

\* The class attribute MATERIAL_PROPERTIES, in the order of the dictionary.
MATERIAL_PROPERTIES ==
    <<
       << << "a", "h", "U+00C5", "U+0178", "a", "p" >>,
          MaterialProperties(60, 15, 0, 85) >>,
       << << "a", "h", "s", "a", "p" >>,
          MaterialProperties(60, 15, 0, 85) >>,
       << << "w", "o", "o", "d" >>,
          MaterialProperties(60, 15, 0, 85) >>,
       << << "k", "o", "n", "t", "r", "p", "l", "a", "k" >>,
          MaterialProperties(65, 14, 0, 83) >>,
       << << "p", "l", "y", "w", "o", "o", "d" >>,
          MaterialProperties(65, 14, 0, 83) >>,
       << << "m", "d", "f" >>,
          MaterialProperties(75, 12, 0, 80) >>,
       << << "b", "a", "l", "s", "a" >>,
          MaterialProperties(15, 5, 0, 88) >>,
       << << "b", "a", "m", "b", "u" >>,
          MaterialProperties(70, 16, 0, 82) >>,
       << << "b", "a", "m", "b", "o", "o" >>,
          MaterialProperties(70, 16, 0, 82) >>,
       << << "k", "a", "y", "U+00C4", "U+00B1", "n" >>,
          MaterialProperties(72, 17, 0, 81) >>,
       << << "k", "a", "y", "i", "n" >>,
          MaterialProperties(72, 17, 0, 81) >>,
       << << "b", "e", "e", "c", "h" >>,
          MaterialProperties(72, 17, 0, 81) >>,
       << << "m", "e", "U+00C5", "U+0178", "e" >>,
          MaterialProperties(80, 18, 0, 79) >>,
       << << "m", "e", "s", "e" >>,
          MaterialProperties(80, 18, 0, 79) >>,
       << << "o", "a", "k" >>,
          MaterialProperties(80, 18, 0, 79) >>,
       << << "c", "e", "v", "i", "z" >>,
          MaterialProperties(65, 16, 0, 83) >>,
       << << "w", "a", "l", "n", "u", "t" >>,
          MaterialProperties(65, 16, 0, 83) >>,
       << << "a", "k", "U+00C3", "U+00A7", "a", "a", "U+00C4", "U+0178", "a", "U+00C3", "U+00A7" >>,
          MaterialProperties(70, 17, 0, 81) >>,
       << << "a", "k", "c", "a", "a", "g", "a", "c" >>,
          MaterialProperties(70, 17, 0, 81) >>,
       << << "m", "a", "p", "l", "e" >>,
          MaterialProperties(70, 17, 0, 81) >>,
       << << "h", "u", "U+00C5", "U+0178" >>,
          MaterialProperties(65, 15, 0, 84) >>,
       << << "h", "u", "s" >>,
          MaterialProperties(65, 15, 0, 84) >>,
       << << "b", "i", "r", "c", "h" >>,
          MaterialProperties(65, 15, 0, 84) >>,
       << << "U+00C3", "U+00A7", "a", "m" >>,
          MaterialProperties(50, 12, 0, 86) >>,
       << << "c", "a", "m" >>,
          MaterialProperties(50, 12, 0, 86) >>,
       << << "p", "i", "n", "e" >>,
          MaterialProperties(50, 12, 0, 86) >>,
       << << "l", "a", "d", "i", "n" >>,
          MaterialProperties(45, 11, 0, 87) >>,
       << << "s", "p", "r", "u", "c", "e" >>,
          MaterialProperties(45, 11, 0, 87) >>,
       << << "f", "i", "r" >>,
          MaterialProperties(45, 11, 0, 87) >>,
       << << "d", "e", "r", "i" >>,
          MaterialProperties(85, 16, 0, 75) >>,
       << << "l", "e", "a", "t", "h", "e", "r" >>,
          MaterialProperties(85, 16, 0, 75) >>,
       << << "k", "a", "r", "t", "o", "n" >>,
          MaterialProperties(45, 8, 0, 90) >>,
       << << "c", "a", "r", "d", "b", "o", "a", "r", "d" >>,
          MaterialProperties(45, 8, 0, 90) >>,
       << << "k", "a", "U+00C4", "U+0178", "U+00C4", "U+00B1", "t" >>,
          MaterialProperties(30, 5, 0, 92) >>,
       << << "k", "a", "g", "i", "t" >>,
          MaterialProperties(30, 5, 0, 92) >>,
       << << "p", "a", "p", "e", "r" >>,
          MaterialProperties(30, 5, 0, 92) >>,
       << << "k", "u", "m", "a", "U+00C5", "U+0178" >>,
          MaterialProperties(40, 6, 0, 88) >>,
       << << "k", "u", "m", "a", "s" >>,
          MaterialProperties(40, 6, 0, 88) >>,
       << << "f", "a", "b", "r", "i", "c" >>,
          MaterialProperties(40, 6, 0, 88) >>,
       << << "k", "e", "U+00C3", "U+00A7", "e" >>,
          MaterialProperties(35, 5, 0, 89) >>,
       << << "k", "e", "c", "e" >>,
          MaterialProperties(35, 5, 0, 89) >>,
       << << "f", "e", "l", "t" >>,
          MaterialProperties(35, 5, 0, 89) >>,
       << << "m", "a", "n", "t", "a", "r" >>,
          MaterialProperties(25, 4, 0, 91) >>,
       << << "c", "o", "r", "k" >>,
          MaterialProperties(25, 4, 0, 91) >>,
       << << "a", "k", "r", "i", "l", "i", "k" >>,
          MaterialProperties(118, 19, 42, 65) >>,
       << << "a", "c", "r", "y", "l", "i", "c" >>,
          MaterialProperties(118, 19, 42, 65) >>,
       << << "p", "l", "e", "x", "i", "g", "l", "a", "s", "s" >>,
          MaterialProperties(118, 19, 42, 65) >>,
       << << "p", "l", "e", "k", "s", "i", "g", "l", "a", "s" >>,
          MaterialProperties(118, 19, 42, 65) >>,
       << << "p", "m", "m", "a" >>,
          MaterialProperties(118, 19, 42, 65) >>,
       << << "l", "a", "s", "t", "i", "k" >>,
          MaterialProperties(110, 25, 35, 70) >>,
       << << "r", "u", "b", "b", "e", "r" >>,
          MaterialProperties(110, 25, 35, 70) >>,
       << << "k", "U+00C3", "U+00B6", "p", "U+00C3", "U+00BC", "k" >>,
          MaterialProperties(20, 3, 30, 93) >>,
       << << "k", "o", "p", "u", "k" >>,
          MaterialProperties(20, 3, 30, 93) >>,
       << << "f", "o", "a", "m" >>,
          MaterialProperties(20, 3, 30, 93) >>,
       << << "a", "n", "o", "d", "i", "z", "e", "_", "a", "l", "u", "m", "i", "n", "y", "u", "m" >>,
          MaterialProperties(270, 205, 80, 20) >>,
       << << "a", "n", "o", "d", "i", "z", "e", "d", "_", "a", "l", "u", "m", "i", "n", "u", "m" >>,
          MaterialProperties(270, 205, 80, 20) >>,
       << << "d", "i", "g", "e", "r" >>,
          MaterialProperties(70, 15, 0, 80) >>,
       << << "o", "t", "h", "e", "r" >>,
          MaterialProperties(70, 15, 0, 80) >>
    >>

\* The properties of a material that matches no key.
DefaultProperties == MaterialProperties(70, 15, 0, 80)

\* The keys that are the lowered and stripped name, and the keys that contain
\* it or that it contains.
PropertyExactMatches(material_lower) ==
    { i \in 1..Len(MATERIAL_PROPERTIES) : MATERIAL_PROPERTIES[i][1] = material_lower }

PropertySubstringMatches(material_lower) ==
    { i \in 1..Len(MATERIAL_PROPERTIES) :
          \/ Contains(material_lower, MATERIAL_PROPERTIES[i][1])
          \/ Contains(MATERIAL_PROPERTIES[i][1], material_lower) }

\* The property lookup with the partial match in one direction only: a key
\* that the name contains.
material_props_KeyInName(material_type) ==
    LET material_lower == Strip(Lower(material_type))
        partial == { i \in 1..Len(MATERIAL_PROPERTIES) :
                       Contains(material_lower, MATERIAL_PROPERTIES[i][1]) }
    IN  IF PropertyExactMatches(material_lower) # { }
        THEN MATERIAL_PROPERTIES[SetMin(PropertyExactMatches(material_lower))][2]
        ELSE IF partial # { }
        THEN MATERIAL_PROPERTIES[SetMin(partial)][2]
        ELSE DefaultProperties

\* The property lookup of encode: the exact key, else the first key in
\* dictionary order that matches as a substring, else the default.
material_props(material_type) ==
    LET material_lower == Strip(Lower(material_type))
    IN  IF PropertyExactMatches(material_lower) # { }
        THEN MATERIAL_PROPERTIES[SetMin(PropertyExactMatches(material_lower))][2]
        ELSE IF PropertySubstringMatches(material_lower) # { }
        THEN MATERIAL_PROPERTIES[SetMin(PropertySubstringMatches(material_lower))][2]
        ELSE DefaultProperties

\* The one-hot component with its two values exchanged.
OneHot_Exchanged(process_type, name) ==
    IF process_type = name THEN FloatZero ELSE FloatOf(1, 1)

\* 1.0 if process_type == name else 0.0
OneHot(process_type, name) == IF process_type = name THEN FloatOf(1, 1) ELSE FloatZero

\* The feature vector of encode: 9 float32 components.
encode_features(material_type, thickness, laser_power, process_type) ==
    LET props == material_props(material_type)
    IN  << FloatOf(props.density, 300),
           FloatOf(props.thermal, 250),
           FloatOf(props.melt, 100),
           FloatOf(props.absorb, 100),
           FloatOf(thickness, 100),
           FloatOf(laser_power, 40),
           OneHot(process_type, "cutting"),
           OneHot(process_type, "engraving"),
           OneHot(process_type, "scoring") >>

\* The keys that encode_batch reads before it appends to X.
FeatureKeys == { "materialType", "materialThickness", "laserPower", "processType" }

\* A row of X or of a target array; rec is the place in the input of the
\* record that the row was computed from.
Row(rec, value) == [ rec |-> rec, value |-> value ]

\* The arrays of encode_batch.
Arrays(X, y_power, y_speed, y_passes) ==
    [ X |-> X, y_power |-> y_power, y_speed |-> y_speed, y_passes |-> y_passes ]

\* The places of the records whose pass of the loop of encode_batch reads all
\* of `keys`: a subscript of a missing key raises KeyError, which ends the pass
\* and keeps what the pass has appended before.
Reached(firebase_data, keys) ==
    SelectSeq([ i \in 1..Len(firebase_data) |-> i ],
              LAMBDA i : keys \subseteq DOMAIN firebase_data[i])

\* The loop of encode_batch: a pass appends to X after reading the feature keys,
\* then to y_power, y_speed and y_passes after reading each target key.
encode_loop(firebase_data) ==
    LET x_recs      == Reached(firebase_data, FeatureKeys)
        power_recs  == Reached(firebase_data, FeatureKeys \cup { "targetPower" })
        speed_recs  == Reached(firebase_data,
                               FeatureKeys \cup { "targetPower", "targetSpeed" })
        passes_recs == Reached(firebase_data,
                               FeatureKeys \cup { "targetPower", "targetSpeed",
                                                  "targetPasses" })
    IN  Arrays([ j \in 1..Len(x_recs) |->
                   LET data == firebase_data[x_recs[j]]
                   IN  Row(x_recs[j],
                           encode_features(data["materialType"],
                                           data["materialThickness"],
                                           data["laserPower"], data["processType"])) ],
               [ j \in 1..Len(power_recs) |->
                   Row(power_recs[j],
                       FloatOf(firebase_data[power_recs[j]]["targetPower"], 1000)) ],
               [ j \in 1..Len(speed_recs) |->
                   Row(speed_recs[j],
                       FloatOf(firebase_data[speed_recs[j]]["targetSpeed"], 500)) ],
               [ j \in 1..Len(passes_recs) |->
                   Row(passes_recs[j],
                       FloatOf(firebase_data[passes_recs[j]]["targetPasses"], 20)) ])

\* encode_batch: the arrays, or ValueError when X is empty.
encode_samples(firebase_data) ==
    LET arrays == encode_loop(firebase_data)
    IN  IF Len(arrays.X) = 0
        THEN [ status |-> "ValueError", arrays |-> None ]
        ELSE [ status |-> "ok", arrays |-> Some(arrays) ]

\* decode_predictions without the clamp of the passes.
decode_PassesUnclamped(power_norm, speed_norm, passes_norm) ==
    [ power  |-> FloatClip(FloatMul(power_norm, 100), 10, 100),
      speed  |-> FloatClip(FloatMul(speed_norm, 500), 50, 500),
      passes |-> FloatRoundToInt(FloatMul(passes_norm, 20)) ]

\* decode_predictions with the speed scaled as the power is.
decode_SpeedScaledAsPower(power_norm, speed_norm, passes_norm) ==
    [ power  |-> FloatClip(FloatMul(power_norm, 100), 10, 100),
      speed  |-> FloatClip(FloatMul(speed_norm, 100), 50, 500),
      passes |-> Max(1, Min(20, FloatRoundToInt(FloatMul(passes_norm, 20)))) ]

\* decode_predictions on float32 inputs.
decode(power_norm, speed_norm, passes_norm) ==
    [ power  |-> FloatClip(FloatMul(power_norm, 100), 10, 100),
      speed  |-> FloatClip(FloatMul(speed_norm, 500), 50, 500),
      passes |-> Max(1, Min(20, FloatRoundToInt(FloatMul(passes_norm, 20)))) ]

(***************************************************************************)
(* The data quality service (data_quality_service.py).  A record is a      *)
(* function from its keys to its values; thicknesses are in tenths of a    *)
(* millimetre, thresholds in halves, and a dataSource is the sequence of   *)
(* the parts of its text (a dataSource that is None has no part).          *)
(***************************************************************************)
\* The order in which the processes of a record are visited.
ProcessOrder == << "cutting", "engraving", "scoring" >>

\* exp.get('processes', {}).items(), as the names of the processes.
process_items(exp) ==
    SelectSeq(ProcessOrder, LAMBDA p : p \in DOMAIN Get(exp, "processes", << >>))

\* len(exp.get('processes', {}))
n_processes(exp) == Len(process_items(exp))

\* The row of one process of a record.
feature_row(exp, process) ==
    LET params == exp["processes"][process]
    IN  << Get(exp, "materialThickness", 0), Get(exp, "laserPower", 0),
           Get(params, "power", 0), Get(params, "speed", 0), Get(params, "passes", 0) >>

\* The rows of the processes of the records, record after record.
RECURSIVE features_matrix(_)
features_matrix(records) ==
    IF records = << >> THEN << >>
    ELSE [ i \in 1..n_processes(records[1]) |->
             feature_row(records[1], process_items(records[1])[i]) ]
         \o features_matrix(Tail(records))

\* The column c of the rows.
Column(features, c) == [ k \in 1..Len(features) |-> features[k][c] ]

\* The value at place k (from 0) of the sorted values.
Kth(values, k) ==
    CHOOSE v \in Range(values) :
        /\ Cardinality({ j \in 1..Len(values) : values[j] < v }) <= k
        /\ k < Cardinality({ j \in 1..Len(values) : values[j] <= v })

\* Four times np.percentile(values, 25 * quarter): linear interpolation between
\* the two nearest ranks.
percentile(values, quarter) ==
    LET pos  == quarter * (Len(values) - 1)
        low  == pos \div 4
        frac == pos % 4
    IN  IF frac = 0 THEN 4 * Kth(values, low)
        ELSE 4 * Kth(values, low) + frac * (Kth(values, low + 1) - Kth(values, low))

\* A value for each of the five columns.
PerColumn(F(_)) == << F(1), F(2), F(3), F(4), F(5) >>

\* _detect_outliers_iqr: the rows with a value below Q1 - multiplier * IQR or
\* above Q3 + multiplier * IQR in some column (the bounds are eight times
\* those of the code).
detect_outliers_iqr(features, multiplier) ==
    LET Q1  == PerColumn(LAMBDA c : percentile(Column(features, c), 1))
        Q3  == PerColumn(LAMBDA c : percentile(Column(features, c), 3))
        IQR == PerColumn(LAMBDA c : Q3[c] - Q1[c])
        lower_bound == PerColumn(LAMBDA c : 2 * Q1[c] - multiplier * IQR[c])
        upper_bound == PerColumn(LAMBDA c : 2 * Q3[c] + multiplier * IQR[c])
    IN  [ k \in 1..Len(features) |->
            \E c \in 1..5 : \/ 8 * features[k][c] < lower_bound[c]
                            \/ 8 * features[k][c] > upper_bound[c] ]

\* _detect_outliers_zscore: the rows with |x - mean| / std > threshold in some
\* column, a std of 0 replaced by 1.  With n rows of sum S the comparison is
\* 4 n (n x - S)^2 > threshold^2 * sum of (n x_i - S)^2; the rounding of the
\* floating-point quotient decides a z-score that equals the threshold (ties).
detect_outliers_zscore(features, threshold, ties) ==
    LET n    == Len(features)
        S    == PerColumn(LAMBDA c : SumSeq(Column(features, c)))
        dev  == PerColumn(LAMBDA c : [ i \in 1..n |-> n * features[i][c] - S[c] ])
        std2 == PerColumn(LAMBDA c : SumSeq([ i \in 1..n |-> dev[c][i] * dev[c][i] ]))
    IN  [ k \in 1..n |->
            \E c \in 1..5 :
                IF std2[c] = 0 THEN 0 > threshold
                ELSE \/ 4 * n * dev[c][k] * dev[c][k] > threshold * threshold * std2[c]
                     \/ 4 * n * dev[c][k] * dev[c][k] = threshold * threshold * std2[c]
                        /\ ties ]

\* The flags of the records: any of the rows idx .. idx + n_processes - 1 of the
\* mask, a record without processes never flagged.
RECURSIVE experiment_outlier_flags(_, _, _)
experiment_outlier_flags(records, outlier_mask, idx) ==
    IF records = << >> THEN << >>
    ELSE LET n == n_processes(records[1])
         IN  IF n = 0
             THEN << FALSE >> \o experiment_outlier_flags(Tail(records), outlier_mask, idx)
             ELSE << \E k \in (idx + 1)..(idx + n) :
                        k <= Len(outlier_mask) /\ outlier_mask[k] >>
                  \o experiment_outlier_flags(Tail(records), outlier_mask, idx + n)

\* [exp for exp, is_out in zip(experiments, flags) if is_out = wanted]
RECURSIVE Split(_, _, _)
Split(records, flags, wanted) ==
    IF records = << >> THEN << >>
    ELSE (IF flags[1] = wanted THEN << records[1] >> ELSE << >>)
         \o Split(Tail(records), Tail(flags), wanted)

\* The lists of detect_outliers with every record kept in the clean list.
split_outliers_KeepsAll(records, method, threshold, ties) ==
    IF records = << >> THEN [ clean |-> << >>, outliers |-> << >> ]
    ELSE IF Len(features_matrix(records)) = 0
    THEN [ clean |-> records, outliers |-> << >> ]
    ELSE LET features == features_matrix(records)
             outlier_mask ==
                 IF method = "iqr" THEN detect_outliers_iqr(features, threshold)
                 ELSE IF method = "zscore"
                 THEN detect_outliers_zscore(features, threshold, ties)
                 ELSE detect_outliers_iqr(features, threshold)
             flags == experiment_outlier_flags(records, outlier_mask, 0)
         IN  [ clean    |-> records,
               outliers |-> Split(records, flags, TRUE) ]

\* The lists of detect_outliers with the rows of the mask read from the second.
split_outliers_FromSecondRow(records, method, threshold, ties) ==
    IF records = << >> THEN [ clean |-> << >>, outliers |-> << >> ]
    ELSE IF Len(features_matrix(records)) = 0
    THEN [ clean |-> records, outliers |-> << >> ]
    ELSE LET features == features_matrix(records)
             outlier_mask ==
                 IF method = "iqr" THEN detect_outliers_iqr(features, threshold)
                 ELSE IF method = "zscore"
                 THEN detect_outliers_zscore(features, threshold, ties)
                 ELSE detect_outliers_iqr(features, threshold)
             flags == experiment_outlier_flags(records, outlier_mask, 1)
         IN  [ clean    |-> Split(records, flags, FALSE),
               outliers |-> Split(records, flags, TRUE) ]

\* The lists (clean, outliers) of detect_outliers.
split_outliers(records, method, threshold, ties) ==
    IF records = << >> THEN [ clean |-> << >>, outliers |-> << >> ]
    ELSE IF Len(features_matrix(records)) = 0
    THEN [ clean |-> records, outliers |-> << >> ]
    ELSE LET features == features_matrix(records)
             outlier_mask ==
                 IF method = "iqr" THEN detect_outliers_iqr(features, threshold)
                 ELSE IF method = "zscore"
                 THEN detect_outliers_zscore(features, threshold, ties)
                 ELSE detect_outliers_iqr(features, threshold)
             flags == experiment_outlier_flags(records, outlier_mask, 0)
         IN  [ clean    |-> Split(records, flags, FALSE),
               outliers |-> Split(records, flags, TRUE) ]

\* d[key] = value
Put(d, key, value) ==
    [ k \in DOMAIN d \cup { key } |-> IF k = key THEN value ELSE d[k] ]

\* The draws of one synthetic record: the uniform scales in hundredths and the
\* Gaussian noises.
Draw(thickness_scale, power_scale, process_power, process_speed, power_noise, speed_noise) ==
    [ thickness_scale |-> thickness_scale, power_scale |-> power_scale,
      process_power |-> process_power, process_speed |-> process_speed,
      power_noise |-> power_noise, speed_noise |-> speed_noise ]

\* value * scale, for a scale in hundredths.
Scaled(value, scale) == (value * scale) \div 100

\* The perturbed parameters of one process.
perturbed_params(params, draw) ==
    LET with_power ==
            IF "power" \in DOMAIN params
            THEN Put(params, "power",
                     Max(10, Min(100, Scaled(params["power"], draw.process_power)))
                         + draw.power_noise)
            ELSE params
    IN  IF "speed" \in DOMAIN params
        THEN Put(with_power, "speed",
                 Max(50, Min(500, Scaled(params["speed"], draw.process_speed)))
                     + draw.speed_noise)
        ELSE with_power

\* The copy of _create_synthetic_experiment after its perturbations, before
\* it is tagged.
perturbed_experiment(original, draw) ==
    LET thickness == Max(5, Min(100, Scaled(Get(original, "materialThickness", 30),
                                            draw.thickness_scale)))
        power     == Max(2, Min(40, Scaled(Get(original, "laserPower", 20),
                                           draw.power_scale)))
        perturbed == Put(Put(original, "materialThickness", thickness),
                         "laserPower", power)
    IN  IF "processes" \in DOMAIN original
        THEN Put(perturbed, "processes",
                 [ p \in DOMAIN original["processes"] |->
                     perturbed_params(original["processes"][p], draw) ])
        ELSE perturbed

\* _create_synthetic_experiment without the tag of the dataSource.
create_synthetic_experiment_Untagged(original, draw) ==
    LET dataSource == Get(original, "dataSource", << "user" >>)
    IN  IF dataSource = << >> THEN None
        ELSE Some(Put(perturbed_experiment(original, draw), "dataSource", dataSource))

\* _create_synthetic_experiment: a perturbed deep copy of the original, tagged
\* as synthetic, or None when a step raises (a dataSource that is not a text).
create_synthetic_experiment(original, draw) ==
    LET dataSource == Get(original, "dataSource", << "user" >>)
    IN  IF dataSource = << >> THEN None
        ELSE Some(Put(perturbed_experiment(original, draw), "dataSource",
                      dataSource \o << "_synthetic" >>))

\* Whether a cell that augment_data writes is a cell of its caller, with
\* copy.copy in the place of copy.deepcopy.
shares_caller_cell_ShallowCopy(cell) == cell \in { "processes", "params" }

\* Whether a cell that augment_data writes is a cell of its caller: the list
\* is list(experiments), and the dict of a record, its processes dict and the
\* dicts of its processes are those of copy.deepcopy(original).
shares_caller_cell(cell) == FALSE

\* The original after a synthetic record was derived from it: the writes
\* reach it in the cells that the copy shares with it.
original_after(original, draw) ==
    LET written == perturbed_experiment(original, draw)
        created == create_synthetic_experiment(original, draw)
        record  == IF ~shares_caller_cell("record") THEN original
                   ELSE IF created = None THEN written ELSE created[1]
    IN  IF "processes" \in DOMAIN original
        THEN Put(record, "processes",
                 IF shares_caller_cell("params") THEN written["processes"]
                 ELSE original["processes"])
        ELSE record

\* The draws that the generator can deliver.
Draws ==
    << Draw(90, 110, 95, 110, -6, 30), Draw(110, 90, 105, 90, 6, -30),
       Draw(100, 100, 100, 100, 0, 0), Draw(90, 90, 95, 90, -6, -30) >>

\* The synthetic records with augmentation_factor of them for each original.
synthetic_experiments_FactorEach(records, augmentation_factor, seed) ==
    LET per_record == Max(0, augmentation_factor)
    IN  [ k \in 1..(Len(records) * per_record) |->
            create_synthetic_experiment(records[((k - 1) \div per_record) + 1],
                                        Draws[((seed + k) % Len(Draws)) + 1]) ]

\* The synthetic records of augment_data in the order of their creation, a
\* failed one as None; seed is the state of the generator.
synthetic_experiments(records, augmentation_factor, seed) ==
    LET per_record == Max(0, augmentation_factor - 1)
    IN  [ k \in 1..(Len(records) * per_record) |->
            create_synthetic_experiment(records[((k - 1) \div per_record) + 1],
                                        Draws[((seed + k) % Len(Draws)) + 1]) ]

\* The list that augment_data returns: the originals, then the synthetic
\* records that were created.
augmented_experiments(records, augmentation_factor, seed) ==
    LET created == SelectSeq(synthetic_experiments(records, augmentation_factor, seed),
                             LAMBDA synthetic : synthetic # None)
    IN  records \o [ k \in 1..Len(created) |-> created[k][1] ]

\* An original after the synthetic records first .. last of a call were derived
\* from it.
RECURSIVE derived_from(_, _, _, _)
derived_from(original, seed, first, last) ==
    IF first > last THEN original
    ELSE derived_from(original_after(original, Draws[((seed + first) % Len(Draws)) + 1]),
                      seed, first + 1, last)

\* The list and the records of the caller of augment_data after the call.
experiments_after(records, augmentation_factor, seed) ==
    LET per_record == Max(0, augmentation_factor - 1)
    IN  IF shares_caller_cell("list")
        THEN augmented_experiments(records, augmentation_factor, seed)
        ELSE [ i \in 1..Len(records) |->
                 derived_from(records[i], seed, (i - 1) * per_record + 1,
                              i * per_record) ]

\* np.random.choice(class_exps, size): the generator in state seed picks the
\* elements seed + 1, seed + 2, ... (cyclically), which are distinct when size
\* does not exceed the length.
choice(class_exps, size, seed) ==
    [ j \in 1..size |-> class_exps[((seed + j) % Len(class_exps)) + 1] ]

\* What balance_classes appends for the class class_value that count records
\* have, None when np.random.choice raises ValueError (nothing to choose from).
\* The class of a record is exp.get(target_key, 'unknown') when the classes are
\* counted and exp.get(target_key) when the records of a class are collected.
balanced_class(records, target_key, method, class_value, count, limit, seed) ==
    LET class_exps == SelectSeq(records, LAMBDA e : Get(e, target_key, None) = class_value)
        size       == IF method = "oversample" THEN limit - count ELSE limit
    IN  IF (method = "oversample" /\ limit - count <= 0)
           \/ (method = "undersample" /\ count <= limit)
        THEN Some(class_exps)
        ELSE IF class_exps = << >> \/ (method = "undersample" /\ size > Len(class_exps))
        THEN None
        ELSE IF method = "oversample"
        THEN Some(class_exps \o choice(class_exps, size, seed))
        ELSE Some(choice(class_exps, size, seed))

\* balanced.extend(part) for the parts in turn.
RECURSIVE extend_all(_)
extend_all(parts) ==
    IF parts = << >> THEN << >> ELSE parts[1][1] \o extend_all(Tail(parts))

\* balance_classes: the classes in the order of their first record, each
\* brought to the count of the largest (oversample) or smallest (undersample)
\* class; an unknown method returns the input.
balanced_experiments(records, target_key, method, seed) ==
    LET class_of(i) == Get(records[i], target_key, << "unknown" >>)
        firsts  == SelectSeq([ i \in 1..Len(records) |-> i ],
                             LAMBDA i : \A j \in 1..(i - 1) : class_of(j) # class_of(i))
        count(c) == Cardinality({ i \in 1..Len(records) : class_of(i) = class_of(firsts[c]) })
        counts  == { count(c) : c \in 1..Len(firsts) }
        parts   == [ c \in 1..Len(firsts) |->
                       balanced_class(records, target_key, method, class_of(firsts[c]),
                                      count(c),
                                      IF method = "oversample" THEN SetMax(counts)
                                      ELSE SetMin(counts), seed) ]
    IN  IF method \notin { "oversample", "undersample" }
        THEN [ status |-> "ok", balanced |-> records ]
        ELSE IF records = << >> \/ \E c \in 1..Len(firsts) : parts[c] = None
        THEN [ status |-> "ValueError", balanced |-> << >> ]
        ELSE [ status |-> "ok", balanced |-> extend_all(parts) ]

\* One error message of validate_experiment: its text, the process it is
\* about, the value and the expected range that it shows.
Message(message, subject, value, expected) ==
    [ message |-> message, subject |-> subject, value |-> value, expected |-> expected ]

\* not experiment[field], for the type of the field.
Falsy(experiment, field) ==
    IF field = "materialType" THEN experiment[field] = ""
    ELSE IF field = "processes" THEN DOMAIN experiment[field] = { }
    ELSE experiment[field] = 0

\* The messages of validate_experiment about the parameters of one process.
process_errors(process, params) ==
    (IF "power" \in DOMAIN params /\ ~(5 <= params["power"] /\ params["power"] <= 100)
     THEN << Message("power out of range", process, params["power"], "") >>
     ELSE << >>)
    \o (IF "speed" \in DOMAIN params /\ ~(50 <= params["speed"] /\ params["speed"] <= 500)
        THEN << Message("speed out of range", process, params["speed"], "") >>
        ELSE << >>)
    \o (IF "passes" \in DOMAIN params /\ ~(1 <= params["passes"] /\ params["passes"] <= 20)
        THEN << Message("passes out of range", process, params["passes"], "") >>
        ELSE << >>)

\* The error list of validate_experiment stopped at its first message.
validation_errors_FirstOnly(experiment) ==
    LET required == << "materialType", "materialThickness", "laserPower", "processes" >>
        missing  == SelectSeq(required,
                              LAMBDA f : f \notin DOMAIN experiment \/ Falsy(experiment, f))
    IN  IF missing # << >>
        THEN << Message("Missing required field", missing[1], 0, "") >>
        ELSE IF ~(2 <= experiment["laserPower"] /\ experiment["laserPower"] <= 40)
        THEN << Message("Laser power out of range", "", experiment["laserPower"],
                        "2-40W") >>
        ELSE << >>

\* The error list of validate_experiment.
validation_errors(experiment) ==
    LET required == << "materialType", "materialThickness", "laserPower", "processes" >>
        missing  == SelectSeq(required,
                              LAMBDA f : f \notin DOMAIN experiment \/ Falsy(experiment, f))
        items    == process_items(experiment)
    IN  [ i \in 1..Len(missing) |-> Message("Missing required field", missing[i], 0, "") ]
        \o (IF "laserPower" \in DOMAIN experiment
               /\ ~(2 <= experiment["laserPower"] /\ experiment["laserPower"] <= 40)
            THEN << Message("Laser power out of range", "", experiment["laserPower"],
                            "2-40W") >>
            ELSE << >>)
        \o (IF "materialThickness" \in DOMAIN experiment
               /\ ~(1 <= experiment["materialThickness"]
                    /\ experiment["materialThickness"] <= 100)
            THEN << Message("Thickness out of range", "", experiment["materialThickness"],
                            "0.1-10mm") >>
            ELSE << >>)
        \o (IF items = << >> THEN << >>
            ELSE process_errors(items[1], experiment["processes"][items[1]])
                 \o (IF Len(items) < 2 THEN << >>
                     ELSE process_errors(items[2], experiment["processes"][items[2]]))
                 \o (IF Len(items) < 3 THEN << >>
                     ELSE process_errors(items[3], experiment["processes"][items[3]])))

(***************************************************************************)
(* The candidate pool.  The data store hands predict_from_data a list of   *)
(* experiment records; the model draws them from a catalog of records      *)
(* that differ in every field the predictor reads: the processes present,  *)
(* the quality scores (present, absent, below and above the threshold),    *)
(* the votes, the provenance, the laser power and the machine brand.       *)
(***************************************************************************)
ProcessTypes == { "cutting", "engraving" }

Params(power, speed, passes) == [ power |-> power, speed |-> speed, passes |-> passes ]

Catalog ==
    << [ processes     |-> [ cutting |-> Params(50, 300, 2),
                             engraving |-> Params(30, 400, 1) ],
         qualityScores |-> [ cutting |-> 8, engraving |-> 6 ],
         approveCount  |-> 0,
         dataSource    |-> "user",
         laserPower    |-> 20,
         machineBrand  |-> << "x", "T", "o", "o", "l" >> ],
       [ processes     |-> [ cutting |-> Params(100, 500, 10) ],
         qualityScores |-> [ cutting |-> 10 ],
         approveCount  |-> 4,
         dataSource    |-> "researcher",
         laserPower    |-> 10,
         machineBrand  |-> << "O", "r", "t", "u", "r" >> ],
       [ processes     |-> [ cutting |-> Params(5, 50, 1),
                             engraving |-> Params(20, 450, 1) ],
         qualityScores |-> [ cutting |-> 5, engraving |-> 7 ],
         approveCount  |-> 1,
         dataSource    |-> "user",
         laserPower    |-> 40,
         machineBrand  |-> << "x", "t", "o", "o", "l" >> ],
       [ processes     |-> [ cutting |-> Params(60, 200, 4),
                             engraving |-> Params(10, 500, 1) ],
         qualityScores |-> [ cutting |-> 4, engraving |-> 9 ],
         approveCount  |-> 0,
         dataSource    |-> "researcher_import",
         laserPower    |-> 20,
         machineBrand  |-> << "A", "t", "o", "m" >> ],
       [ processes     |-> [ engraving |-> Params(15, 350, 2) ],
         qualityScores |-> [ engraving |-> 5 ] ],
       [ processes     |-> [ cutting |-> Params(70, 250, 3) ],
         approveCount  |-> 3,
         dataSource    |-> "user",
         laserPower    |-> 20,
         machineBrand  |-> << "x", "T", "o", "o", "l" >> ],
       [ processes     |-> [ cutting |-> Params(20, 480, 1) ],
         qualityScores |-> [ cutting |-> 9 ],
         approveCount  |-> 0,
         dataSource    |-> "user",
         laserPower    |-> 80,
         machineBrand  |-> << "E", "p", "i", "l", "o", "g" >> ],
       [ processes     |-> [ cutting |-> Params(80, 100, 5) ],
         qualityScores |-> [ cutting |-> 6 ],
         approveCount  |-> 2,
         dataSource    |-> "user",
         laserPower    |-> 10,
         machineBrand  |-> << "S", "c", "u", "l", "p" >> ],
       [ processes     |-> [ cutting |-> Params(40, 350, 3) ],
         qualityScores |-> [ cutting |-> 8 ],
         approveCount  |-> 0,
         dataSource    |-> "researcher",
         laserPower    |-> 20,
         machineBrand  |-> << "x", "T", "o", "o", "l" >> ] >>

\* The target laser powers of a request: absent, 0, and watts in the range.
TargetPowers == { None, Some(0), Some(5), Some(20), Some(40) }

\* The place of a record in the catalog.
CatalogIndex(exp) == CHOOSE k \in 1..Len(Catalog) : Catalog[k] = exp

VARIABLES
    experiments,       \* the pool handed to predict_from_data
    pc,                \* "idle", "returned" or "raised"
    process_type,      \* the requested process of the last call
    target_power,      \* its target power (None or Some(watts))
    predictions,       \* the returned parameter set: None or Some(record)
    confidence,        \* the returned confidence, in hundredths
    notes,             \* the returned notes, as their parts
    base_predictions,  \* the call's unscaled parameter set: None or Some(record)
    was_scaled,        \* the call's was_scaled
    fallback_call,     \* the last static fallback call: None or Some(record)
    fallback_result,   \* its outcome: None or Some(record)
    encoder_call,      \* the feature encoder call in progress: None or Some(record)
    encoder_result,    \* its outcome: None or Some(record)
    quality_call,      \* the data quality call in progress: None or Some(record)
    quality_result,    \* its outcome: None or Some(value)
    outlier_stats,     \* the counters of the data quality service
    caller_experiments, \* the caller's list and records after the call: None or Some(list)
    started,           \* the server process has run startup_event
    tf_available,      \* ml_transfer_model.TF_AVAILABLE
    feature_encoder,   \* main.feature_encoder is an encoder (TRUE) or None (FALSE)
    storage,           \* the model storage: reachable or not, and the model it holds (0: none)
    local_model,       \* the model in the local file models/diode_laser_transfer_v1.h5 (0: no file)
    hybrid_model,      \* ml_transfer_model._hybrid_model: None or Some(instance)
    transfer_model,    \* main.transfer_model: None or Some(name of the instance)
    trained_models,    \* how many models training has produced; they are numbered from 1
    update_history,    \* OnlineLearningService.update_history
    last_update,       \* how often OnlineLearningService.last_update was advanced
    service_outcome    \* what the last handler or job of the server did: None or Some(record)

\* The variables of the predictor and those of the static fallback.
predictor_vars == << experiments, pc, process_type, target_power, predictions,
                     confidence, notes, base_predictions, was_scaled >>

fallback_vars == << fallback_call, fallback_result >>

encoder_vars == << encoder_call, encoder_result >>

quality_vars == << quality_call, quality_result, outlier_stats, caller_experiments >>

\* The variables of the server process: the transfer model, its storage and
\* the online learning service.
service_vars == << started, tf_available, feature_encoder, storage, local_model,
                  hybrid_model, transfer_model, trained_models, update_history,
                  last_update, service_outcome >>

vars == << predictor_vars, fallback_vars, encoder_vars, quality_vars, service_vars >>

Init ==
    /\ experiments = << >>
    /\ pc = "idle"
    /\ process_type = "cutting"
    /\ target_power = None
    /\ predictions = None
    /\ confidence = 0
    /\ notes = << >>
    /\ base_predictions = None
    /\ was_scaled = FALSE
    /\ fallback_call = None
    /\ fallback_result = None
    /\ encoder_call = None
    /\ encoder_result = None
    /\ quality_call = None
    /\ quality_result = None
    /\ caller_experiments = None
    /\ outlier_stats = [ total_checked |-> 0, outliers_detected |-> 0,
                         outliers_removed |-> 0 ]
    /\ started = FALSE
    /\ tf_available = TRUE
    /\ feature_encoder = FALSE
    /\ storage = [ available |-> TRUE, model |-> 0 ]
    /\ local_model = 0
    /\ hybrid_model = None
    /\ transfer_model = None
    /\ trained_models = 0
    /\ update_history = << >>
    /\ last_update = 0
    /\ service_outcome = None

\* The data store adds a record to the pool.  predict_from_data reads the pool
\* through sums, means, medians, extremes and sets only, so a pool stands for
\* all its orderings and the records are added in catalog order.
FetchExperiment(k) ==
    /\ pc = "idle"
    /\ Len(experiments) < MaxPool
    /\ experiments # << >> => CatalogIndex(experiments[Len(experiments)]) <= k
    /\ experiments' = Append(experiments, Catalog[k])
    /\ UNCHANGED << pc, process_type, target_power, predictions, confidence, notes,
                    base_predictions, was_scaled >>
    /\ UNCHANGED << fallback_vars, encoder_vars, quality_vars, service_vars >>

\* One call of predict_from_data(experiments, pt, material, thickness, tp).
\* material_type and thickness are not read by the function.
predict_from_data(pt, tp) ==
    LET relevant_experiments == RelevantExperiments(experiments, pt)
        data_points          == Len(relevant_experiments)
        source_sum           == SumSeq(LaserPowers(relevant_experiments))
        power_difference_n   == PowerDifferenceN(relevant_experiments, tp)
        scaled               == NeedsScaling(relevant_experiments, tp)
        base                 == calculate_average_params(relevant_experiments, pt)
        result               == IF scaled
                                THEN scale_by_power(base, source_sum, data_points, tp[1])
                                ELSE base
        conf                 == calculate_confidence(data_points, relevant_experiments,
                                                     pt, scaled, power_difference_n)
    IN  /\ pc = "idle"
        /\ process_type' = pt
        /\ target_power' = tp
        /\ UNCHANGED << experiments, fallback_vars, encoder_vars, quality_vars, service_vars >>
        /\ IF data_points < min_data_points
           THEN /\ pc' = "returned"
                /\ predictions' = None
                /\ confidence' = 0
                /\ notes' = << [ part |-> "insufficient", data_points |-> data_points ] >>
                /\ base_predictions' = None
                /\ was_scaled' = FALSE
           ELSE IF total_weight(relevant_experiments, pt) = 0
           THEN \* ZeroDivisionError in _calculate_average_params
                /\ pc' = "raised"
                /\ predictions' = None
                /\ confidence' = 0
                /\ notes' = << >>
                /\ base_predictions' = None
                /\ was_scaled' = FALSE
           ELSE /\ pc' = "returned"
                /\ predictions' = Some(result)
                /\ confidence' = conf
                /\ notes' = generate_notes(data_points, conf, relevant_experiments, pt,
                                           scaled, source_sum, tp)
                /\ base_predictions' = Some(base)
                /\ was_scaled' = scaled

\* The caller takes the result; the service is ready for the next call.
Return ==
    /\ pc # "idle"
    /\ pc' = "idle"
    /\ predictions' = None
    /\ confidence' = 0
    /\ notes' = << >>
    /\ base_predictions' = None
    /\ was_scaled' = FALSE
    /\ process_type' = "cutting"
    /\ target_power' = None
    /\ UNCHANGED << experiments, fallback_vars, encoder_vars, quality_vars, service_vars >>

Next ==
    \/ \E k \in 1..Len(Catalog) : FetchExperiment(k)
    \/ \E pt \in ProcessTypes, tp \in TargetPowers : predict_from_data(pt, tp)
    \/ Return

Spec == Init /\ [][Next]_vars

(***************************************************************************)
(* The static fallback: calls of the static algorithm (the /predict        *)
(* handler's fallback loop) and of MLPredictionService's                   *)
(* get_fallback_prediction.                                                *)
(***************************************************************************)
\* Material names: a key, a key in capitals with a trailing blank, a name that
\* contains a key, a part of a key, the empty name, and names matching no key.
Materials ==
    { << "w", "o", "o", "d" >>,
      << "M", "D", "F", " " >>,
      << "x", "m", "d", "f" >>,
      << "b", "a", "l" >>,
      << >>,
      << "o", "a", "k" >>,
      << "c", "a", "m" >> }

\* Thicknesses in tenths of a millimetre.
Thicknesses == { 2, 15, 30, 100, 250 }

\* The three processes, and a name that is no process.
FallbackProcesses == { "cutting", "engraving", "scoring", "marking" }

FallbackCall(fn, material, thickness, process) ==
    Some([ fn |-> fn, material |-> material, thickness |-> thickness,
           process |-> process ])

\* The static algorithm computes one process of a request.
static_algorithm(material, thickness, process) ==
    /\ fallback_call' = FallbackCall("static_algorithm", material, thickness, process)
    /\ fallback_result' = Some(static_params(material, thickness, process))
    /\ UNCHANGED << predictor_vars, encoder_vars, quality_vars, service_vars >>

\* A call of MLPredictionService.get_fallback_prediction.
get_fallback_prediction(material, thickness, process) ==
    /\ fallback_call' = FallbackCall("get_fallback_prediction", material, thickness,
                                     process)
    /\ fallback_result' = Some(fallback_prediction(material, thickness, process))
    /\ UNCHANGED << predictor_vars, encoder_vars, quality_vars, service_vars >>

NextFallback ==
    \/ \E m \in Materials, t \in Thicknesses, p \in FallbackProcesses :
           static_algorithm(m, t, p)
    \/ \E m \in Materials, t \in Thicknesses, p \in FallbackProcesses :
           get_fallback_prediction(m, t, p)

SpecFallback == Init /\ [][NextFallback]_vars

(***************************************************************************)
(* The feature encoder: calls of encode, encode_batch and                  *)
(* decode_predictions on the singleton encoder.                            *)
(***************************************************************************)
\* The longest list handed to encode_batch.
MaxBatch == 3

\* Material names: a key, a key in capitals with a trailing blank, a name that
\* contains a key, a part of a key, the empty name, and names matching no key.
EncoderMaterials ==
    { << "w", "o", "o", "d" >>,
      << "M", "D", "F", " " >>,
      << "x", "m", "d", "f" >>,
      << "o", "a" >>,
      << >>,
      << "g", "r", "a", "n", "i", "t", "e" >>,
      << " ", "T", "a", "s", " " >> }

\* Laser powers in watts.
EncoderLaserPowers == { 5, 20, 40 }

\* The records of a training batch: complete ones with targets in and out of
\* range, and ones that lack a target key or a feature key.
BatchCatalog ==
    << [ materialType |-> << "w", "o", "o", "d" >>, materialThickness |-> 30,
         laserPower |-> 20, processType |-> "cutting",
         targetPower |-> 150, targetSpeed |-> 127, targetPasses |-> 3 ],
       [ materialType |-> << "M", "D", "F", " " >>, materialThickness |-> 55,
         laserPower |-> 40, processType |-> "engraving",
         targetPower |-> 505, targetSpeed |-> 250, targetPasses |-> 20 ],
       [ materialType |-> << "g", "r", "a", "n", "i", "t", "e" >>,
         materialThickness |-> 100, laserPower |-> 5, processType |-> "scoring",
         targetPower |-> 1200, targetSpeed |-> 600, targetPasses |-> 25 ],
       [ materialType |-> << "w", "o", "o", "d" >>, materialThickness |-> 30,
         laserPower |-> 20, processType |-> "cutting",
         targetSpeed |-> 300, targetPasses |-> 2 ],
       [ materialType |-> << "o", "a" >>, materialThickness |-> 20,
         laserPower |-> 10, processType |-> "engraving",
         targetPower |-> 400, targetSpeed |-> 350 ],
       [ materialThickness |-> 30, laserPower |-> 20, processType |-> "cutting",
         targetPower |-> 600, targetSpeed |-> 200, targetPasses |-> 4 ] >>

\* The lists of at most n records of the catalog.
Batches(n) == UNION { [ 1..k -> Range(BatchCatalog) ] : k \in 0..n }

\* The keys of a record that encode_batch reads.
SampleKeys == FeatureKeys \cup { "targetPower", "targetSpeed", "targetPasses" }

\* The normalized targets that encode_batch computes for a complete record.
NormalizedTargets(data) ==
    << FloatOf(data["targetPower"], 1000), FloatOf(data["targetSpeed"], 500),
       FloatOf(data["targetPasses"], 20) >>

\* Outputs of the network: float32 values below 0, in [0, 1] and above 1.
ModelOutputs == { FloatOf(k, 1000) : k \in { -500, 0, 175, 425, 1000, 1500 } }

\* The inputs of decode_predictions: outputs of the network, and the normalized
\* targets of the complete records.
DecodeInputs ==
    (ModelOutputs \X ModelOutputs \X ModelOutputs)
        \cup { NormalizedTargets(BatchCatalog[i]) :
                   i \in { j \in 1..Len(BatchCatalog) :
                             SampleKeys \subseteq DOMAIN BatchCatalog[j] } }

\* A call of encode.
encode(material_type, thickness, laser_power, pt) ==
    /\ encoder_call = None
    /\ encoder_call' = Some([ fn |-> "encode", material_type |-> material_type,
                              thickness |-> thickness, laser_power |-> laser_power,
                              process_type |-> pt ])
    /\ encoder_result' = Some(encode_features(material_type, thickness, laser_power, pt))
    /\ UNCHANGED << predictor_vars, fallback_vars, quality_vars, service_vars >>

\* A call of encode_batch.
encode_batch(firebase_data) ==
    /\ encoder_call = None
    /\ encoder_call' = Some([ fn |-> "encode_batch", firebase_data |-> firebase_data ])
    /\ encoder_result' = Some(encode_samples(firebase_data))
    /\ UNCHANGED << predictor_vars, fallback_vars, quality_vars, service_vars >>

\* A call of decode_predictions.
decode_predictions(power_norm, speed_norm, passes_norm) ==
    /\ encoder_call = None
    /\ encoder_call' = Some([ fn |-> "decode_predictions", power_norm |-> power_norm,
                              speed_norm |-> speed_norm, passes_norm |-> passes_norm ])
    /\ encoder_result' = Some(decode(power_norm, speed_norm, passes_norm))
    /\ UNCHANGED << predictor_vars, fallback_vars, quality_vars, service_vars >>

\* The caller takes the result of the encoder call.
EncoderReturn ==
    /\ encoder_call # None
    /\ encoder_call' = None
    /\ encoder_result' = None
    /\ UNCHANGED << predictor_vars, fallback_vars, quality_vars, service_vars >>

NextEncoder ==
    \/ \E m \in EncoderMaterials, t \in Thicknesses, lp \in EncoderLaserPowers,
          pt \in FallbackProcesses : encode(m, t, lp, pt)
    \/ \E firebase_data \in Batches(MaxBatch) : encode_batch(firebase_data)
    \/ \E input \in DecodeInputs : decode_predictions(input[1], input[2], input[3])
    \/ EncoderReturn

SpecEncoder == Init /\ [][NextEncoder]_vars

(***************************************************************************)
(* The data quality service: detect_outliers and augment_data are called   *)
(* with lists of the records below; a call returns before the next is      *)
(* made, and the counters of the service outlive the calls.                *)
(***************************************************************************)
\* The longest list handed to the data quality service.
MaxRecords == 3

\* The most records that the counter total_checked counts.
MaxChecked == 3

\* Records with three processes, with two processes of which the first is
\* extreme, with no process and a dataSource that is None, and with one
\* process and neither thickness, passes nor dataSource.
QualityCatalog ==
    << [ materialThickness |-> 30, laserPower |-> 20, dataSource |-> << "user" >>,
         processes |-> [ cutting   |-> Params(100, 300, 2),
                         engraving |-> Params(40, 400, 1),
                         scoring   |-> Params(60, 350, 1) ] ],
       [ materialThickness |-> 30, laserPower |-> 20, dataSource |-> << "researcher" >>,
         processes |-> [ cutting |-> Params(80, 300, 20),
                         scoring |-> Params(60, 350, 1) ] ],
       [ materialThickness |-> 100, laserPower |-> 40, dataSource |-> << >>,
         processes |-> << >> ],
       [ laserPower |-> 20,
         processes |-> [ cutting |-> [ power |-> 100, speed |-> 300 ] ] ] >>

\* The lists of at most n records.
RecordLists(n) ==
    UNION { [ 1..k -> Range(QualityCatalog) ] : k \in 0..n }

\* The methods: the two that detect_outliers knows and one that it does not.
Methods == { "iqr", "zscore", "mad" }

\* The thresholds 1.0, 1.5 and 3.0, in halves.
Thresholds == { 2, 3, 6 }

AugmentationFactors == { 1, 2, 3 }

\* The states of the generator.
Seeds == 0..1

\* detect_outliers(experiments, method, threshold)
detect_outliers(records, method, threshold, ties) ==
    /\ quality_call = None
    /\ outlier_stats.total_checked + Len(records) <= MaxChecked
    /\ LET result == split_outliers(records, method, threshold, ties)
       IN  /\ quality_call' = Some([ fn |-> "detect_outliers", experiments |-> records,
                                     method |-> method, threshold |-> threshold ])
           /\ quality_result' = Some(result)
           /\ caller_experiments' = Some(records)
           /\ outlier_stats' =
                  [ outlier_stats EXCEPT
                      !.total_checked = @ + Len(records),
                      !.outliers_detected = @ + Len(result.outliers) ]
    /\ UNCHANGED << predictor_vars, fallback_vars, encoder_vars, service_vars >>

\* augment_data(experiments, augmentation_factor)
augment_data(records, augmentation_factor, seed) ==
    /\ quality_call = None
    /\ quality_call' = Some([ fn |-> "augment_data", experiments |-> records,
                              augmentation_factor |-> augmentation_factor,
                              seed |-> seed ])
    /\ quality_result' = Some(augmented_experiments(records, augmentation_factor, seed))
    /\ caller_experiments' = Some(experiments_after(records, augmentation_factor, seed))
    /\ UNCHANGED << predictor_vars, fallback_vars, encoder_vars, outlier_stats, service_vars >>

\* The caller takes the result.
QualityReturn ==
    /\ quality_call # None
    /\ quality_call' = None
    /\ quality_result' = None
    /\ caller_experiments' = None
    /\ UNCHANGED << predictor_vars, fallback_vars, encoder_vars, outlier_stats, service_vars >>

\* balance_classes(experiments, target_key, method)
balance_classes(records, target_key, method, seed) ==
    /\ quality_call = None
    /\ quality_call' = Some([ fn |-> "balance_classes", experiments |-> records,
                              target_key |-> target_key, method |-> method ])
    /\ quality_result' = Some(balanced_experiments(records, target_key, method, seed))
    /\ caller_experiments' = Some(records)
    /\ UNCHANGED << predictor_vars, fallback_vars, encoder_vars, outlier_stats, service_vars >>

\* The records handed to validate_experiment: each field absent, falsy, at a
\* bound or outside its range.
ValidationRecords ==
    { material @@ thickness @@ power @@ processes :
        material  \in { << >>, [ materialType |-> "wood" ], [ materialType |-> "" ] },
        thickness \in { << >> } \cup { [ materialThickness |-> t ] : t \in { 0, 1, 100, 150 } },
        power     \in { << >> } \cup { [ laserPower |-> w ] : w \in { 0, 2, 40, 50 } },
        processes \in { << >>, [ processes |-> << >> ] }
                      \cup { [ processes |-> p ] :
                               p \in { [ cutting |-> Params(5, 50, 1) ],
                                       [ cutting |-> Params(100, 500, 20) ],
                                       [ cutting |-> Params(4, 501, 21) ],
                                       [ cutting |-> Params(120, 40, 0),
                                         scoring |-> [ power |-> 101 ] ] } } }

\* validate_experiment(experiment)
validate_experiment(experiment) ==
    /\ quality_call = None
    /\ quality_call' = Some([ fn |-> "validate_experiment", experiment |-> experiment ])
    /\ quality_result' = Some([ is_valid |-> Len(validation_errors(experiment)) = 0,
                                errors   |-> validation_errors(experiment) ])
    /\ caller_experiments' = Some(<< experiment >>)
    /\ UNCHANGED << predictor_vars, fallback_vars, encoder_vars, outlier_stats, service_vars >>

\* The inputs that a caller can hand over: none while a call is in progress.
WhenIdle(inputs) == IF quality_call = None THEN inputs ELSE { }

NextQuality ==
    \/ \E records \in WhenIdle(RecordLists(MaxRecords)), method \in Methods,
          threshold \in Thresholds, ties \in BOOLEAN :
            detect_outliers(records, method, threshold, ties)
    \/ \E records \in WhenIdle(RecordLists(MaxRecords)), factor \in AugmentationFactors,
          seed \in Seeds : augment_data(records, factor, seed)
    \/ \E records \in WhenIdle(RecordLists(MaxRecords)), seed \in Seeds,
          method \in { "oversample", "undersample", "smote" } :
            balance_classes(records, "dataSource", method, seed)
    \/ \E experiment \in WhenIdle(ValidationRecords) : validate_experiment(experiment)
    \/ QualityReturn

SpecQuality == Init /\ [][NextQuality]_vars

(***************************************************************************)
(* The server process (main.py), the singleton of the transfer model       *)
(* (ml_transfer_model.py) and the weekly update of the online learning     *)
(* service (online_learning_service.py).  A model is named by a number:    *)
(* 0 is the freshly built, untrained network (or, for the storage and the  *)
(* local file, no model at all), and training or fine-tuning produces the  *)
(* models 1, 2, ...                                                        *)
(***************************************************************************)
\* How many models training may produce.
MaxModels == 3

\* get_hybrid_model(model_path): the singleton after the call, where
\* path_model is the model in the file at model_path (0 when no path is given
\* or no such file exists).  An instance is built only when there is none; the
\* call returns the singleton, or None when TensorFlow is not available.
get_hybrid_model(path_model) ==
    IF ~tf_available \/ hybrid_model # None THEN hybrid_model
    ELSE Some([ weights |-> path_model, is_trained |-> path_model # 0 ])

\* What decode_predictions returns to /predict for two outputs of the network.
DecodedOutputs ==
    { decode(FloatOf(175, 1000), FloatOf(425, 1000), FloatOf(175, 1000)),
      decode(FloatOf(1500, 1000), FloatOf(-500, 1000), FloatOf(0, 1000)) }

\* The answer of /predict that leaves the predictions of the processes before
\* the failing one in place.
predicted_KeepsPartial(processes, material, thickness, tl_ready, decoded, fails_at) ==
    LET by_model(k) ==
            [ p \in { processes[i] : i \in 1..k } |->
                [ params |-> decoded, by |-> "model" ] ]
        by_static ==
            [ p \in Range(processes) |->
                [ params |-> static_params(material, thickness, p).params,
                  by     |-> "static" ] ]
    IN  IF tl_ready /\ fails_at > Len(processes)
        THEN [ predictions |-> by_model(Len(processes)),
               dataSource |-> "transfer_learning", confidenceScore |-> 85 ]
        ELSE IF tl_ready /\ fails_at > 1
        THEN [ predictions |-> by_model(fails_at - 1),
               dataSource |-> "static_algorithm", confidenceScore |-> 60 ]
        ELSE [ predictions |-> by_static,
               dataSource |-> "static_algorithm", confidenceScore |-> 60 ]

\* The answer of /predict.  When the transfer model is usable (tl_ready) it
\* predicts the processes in turn, decode_predictions giving decoded for the
\* outputs of the network, and the prediction of process number fails_at raises; the except clause empties
\* the predictions, and empty predictions are computed by the static
\* algorithm.  Each parameter set carries who computed it; the confidence is
\* in hundredths.
predicted(processes, material, thickness, tl_ready, decoded, fails_at) ==
    LET by_model ==
            [ p \in Range(processes) |->
                [ params |-> decoded, by |-> "model" ] ]
        by_static ==
            [ p \in Range(processes) |->
                [ params |-> static_params(material, thickness, p).params,
                  by     |-> "static" ] ]
        after_try ==
            IF tl_ready /\ fails_at > Len(processes)
            THEN [ predictions |-> by_model,
                   dataSource |-> "transfer_learning", confidenceScore |-> 85 ]
            ELSE [ predictions |-> << >>,
                   dataSource |-> "static_algorithm", confidenceScore |-> 60 ]
    IN  IF DOMAIN after_try.predictions = { }
        THEN [ predictions |-> by_static,
               dataSource |-> "static_algorithm", confidenceScore |-> 60 ]
        ELSE after_try

\* The start of the server process: the import of ml_transfer_model sets
\* TF_AVAILABLE, then startup_event builds the encoder, loads the model of the
\* storage or builds a fresh one, and trains the fresh one when auto_train
\* says that 50 verified experiments exist and the training succeeds.  The
\* training data pass through detect_outliers, which counts them.
startup_event(tf, encoder, auto_train, detected, uploaded) ==
    LET found   == storage.available /\ storage.model # 0
        trains  == tf /\ encoder /\ ~found /\ auto_train
        trained == trained_models + 1
    IN  /\ ~started
        /\ trains => trained_models < MaxModels
        /\ started' = TRUE
        /\ tf_available' = tf
        /\ feature_encoder' = encoder
        /\ IF ~tf \/ ~encoder
           THEN /\ transfer_model' = None
                /\ UNCHANGED << hybrid_model, local_model, storage, trained_models,
                                outlier_stats >>
           ELSE IF found
           THEN /\ local_model' = storage.model
                /\ hybrid_model' = Some([ weights |-> storage.model, is_trained |-> TRUE ])
                /\ transfer_model' = Some("_hybrid_model")
                /\ UNCHANGED << storage, trained_models, outlier_stats >>
           ELSE IF ~auto_train
           THEN /\ hybrid_model' = Some([ weights |-> 0, is_trained |-> FALSE ])
                /\ transfer_model' = Some("_hybrid_model")
                /\ UNCHANGED << local_model, storage, trained_models, outlier_stats >>
           ELSE /\ hybrid_model' = Some([ weights |-> trained, is_trained |-> TRUE ])
                /\ transfer_model' = Some("_hybrid_model")
                /\ trained_models' = trained
                /\ local_model' = trained
                /\ storage' = IF storage.available /\ uploaded
                              THEN [ storage EXCEPT !.model = trained ] ELSE storage
                /\ outlier_stats' =
                       [ outlier_stats EXCEPT
                           !.total_checked = @ + 50,
                           !.outliers_detected = @ + detected ]
        /\ UNCHANGED << predictor_vars, fallback_vars, encoder_vars, quality_call,
                        quality_result, caller_experiments, update_history, last_update,
                        service_outcome >>

\* The model storage becomes reachable or unreachable, or another writer
\* uploads a newly trained model to it.
storage_event(available, uploads) ==
    /\ uploads => (available /\ trained_models < MaxModels)
    /\ storage' = [ available |-> available,
                    model |-> IF uploads THEN trained_models + 1 ELSE storage.model ]
    /\ trained_models' = IF uploads THEN trained_models + 1 ELSE trained_models
    /\ storage' # storage
    /\ UNCHANGED << predictor_vars, fallback_vars, encoder_vars, quality_vars, started,
                    tf_available, feature_encoder, local_model, hybrid_model,
                    transfer_model, update_history, last_update, service_outcome >>

\* POST /predict for a validated request: one to three distinct processes.
predict(processes, material, thickness, decoded, fails_at) ==
    LET tl_ready == /\ transfer_model # None
                    /\ tf_available
                    /\ feature_encoder
                    /\ hybrid_model[1].is_trained
    IN  /\ started
        /\ service_outcome' =
               Some([ handler |-> "predict", processes |-> processes,
                      tl_ready |-> tl_ready,
                      fails_at |-> fails_at,
                      response |-> predicted(processes, material, thickness, tl_ready,
                                             decoded, fails_at) ])
        /\ UNCHANGED << predictor_vars, fallback_vars, encoder_vars, quality_vars, started,
                        tf_available, feature_encoder, storage, local_model, hybrid_model,
                        transfer_model, trained_models, update_history, last_update >>

\* POST /admin/reload-model-from-firebase: 503 when the storage or TensorFlow
\* is not available, 404 when the storage holds no model; otherwise the model
\* is downloaded to the local file and transfer_model becomes what
\* get_transfer_model(local_model_path) returns.  The answer carries the
\* downloaded model and the model that is in memory after the call.
reload_model_from_firebase ==
    LET Reloaded(status, is_trained, downloaded, in_memory) ==
            Some([ handler |-> "reload_model_from_firebase", status |-> status,
                   is_trained |-> is_trained, downloaded |-> downloaded,
                   in_memory |-> in_memory ])
    IN
    /\ started
    /\ IF ~storage.available \/ ~tf_available
       THEN /\ service_outcome' = Reloaded("503", FALSE, 0, 0)
            /\ UNCHANGED << local_model, hybrid_model, transfer_model >>
       ELSE IF storage.model = 0
       THEN /\ service_outcome' = Reloaded("404", FALSE, 0, 0)
            /\ UNCHANGED << local_model, hybrid_model, transfer_model >>
       ELSE /\ local_model' = storage.model
            /\ hybrid_model' = get_hybrid_model(storage.model)
            /\ transfer_model' = Some("_hybrid_model")
            /\ service_outcome' = Reloaded("success", hybrid_model'[1].is_trained,
                                            storage.model, hybrid_model'[1].weights)
    /\ UNCHANGED << predictor_vars, fallback_vars, encoder_vars, quality_vars, started,
                    tf_available, feature_encoder, storage, trained_models,
                    update_history, last_update >>

\* OnlineLearningService.weekly_model_update, run by the scheduler: data_ready
\* says that the data store is reachable and has 10 samples; the losses are
\* those of the model before and after the fine-tuning, which changes the
\* instance in place.  An exception ends the job without an entry.
weekly_model_update(data_ready, old_loss, new_loss, uploaded) ==
    LET instance   == get_hybrid_model(0)
        skipped    == ~tf_available \/ ~data_ready
        tunes      == ~skipped /\ instance[1].is_trained
        fine_tuned == trained_models + 1
        acceptable == new_loss * 10 <= old_loss * 12
        restored   == IF storage.model # 0 THEN storage.model ELSE local_model
        Entry(status) == [ status |-> status, old_loss |-> old_loss,
                           new_loss |-> new_loss ]
        Outcome(judgement, serving) ==
            Some([ handler |-> "weekly_model_update", judgement |-> judgement,
                   fine_tuned |-> fine_tuned,
                   previous |-> IF instance = None THEN 0 ELSE instance[1].weights,
                   stored |-> storage.model,
                   serving |-> serving,
                   history |-> update_history, last_update |-> last_update,
                   uploaded |-> storage.available /\ uploaded ])
    IN  /\ started
        /\ tunes => trained_models < MaxModels
        /\ IF skipped
           THEN /\ service_outcome' = Outcome("skipped", 0)
                /\ UNCHANGED << hybrid_model, trained_models, local_model, storage,
                                update_history, last_update >>
           ELSE IF ~tunes
           THEN /\ hybrid_model' = instance
                /\ service_outcome' = Outcome("skipped", 0)
                /\ UNCHANGED << trained_models, local_model, storage, update_history,
                                last_update >>
           ELSE /\ trained_models' = fine_tuned
                /\ IF acceptable
                   THEN /\ hybrid_model' = Some([ weights |-> fine_tuned, is_trained |-> TRUE ])
                        /\ local_model' = fine_tuned
                        /\ service_outcome' = Outcome("acceptable", fine_tuned)
                        /\ IF storage.available /\ uploaded
                           THEN /\ storage' = [ storage EXCEPT !.model = fine_tuned ]
                                /\ update_history' = Append(update_history, Entry("deployed"))
                                /\ last_update' = last_update + 1
                           ELSE UNCHANGED << storage, update_history, last_update >>
                   ELSE IF ~storage.available
                   THEN /\ hybrid_model' = Some([ weights |-> fine_tuned, is_trained |-> TRUE ])
                        /\ service_outcome' = Outcome("degraded", fine_tuned)
                        /\ update_history' = Append(update_history, Entry("rollback"))
                        /\ UNCHANGED << local_model, storage, last_update >>
                   ELSE IF restored = 0
                   THEN /\ hybrid_model' = Some([ weights |-> fine_tuned, is_trained |-> TRUE ])
                        /\ service_outcome' = Outcome("degraded", fine_tuned)
                        /\ UNCHANGED << local_model, storage, update_history, last_update >>
                   ELSE /\ hybrid_model' = Some([ weights |-> restored, is_trained |-> TRUE ])
                        /\ local_model' = restored
                        /\ service_outcome' = Outcome("degraded", restored)
                        /\ update_history' = Append(update_history, Entry("rollback"))
                        /\ UNCHANGED << storage, last_update >>
        /\ UNCHANGED << predictor_vars, fallback_vars, encoder_vars, quality_vars, started,
                        tf_available, feature_encoder, transfer_model >>

NextService ==
    \/ \E tf \in BOOLEAN, encoder \in BOOLEAN, auto_train \in BOOLEAN,
          detected \in { 0, 2 }, uploaded \in BOOLEAN :
            startup_event(tf, encoder, auto_train, detected, uploaded)
    \/ \E available \in BOOLEAN, uploads \in BOOLEAN : storage_event(available, uploads)
    \/ \E processes \in { << "cutting" >>, << "engraving", "cutting" >>,
                          << "scoring", "cutting", "engraving" >> },
          decoded \in DecodedOutputs, fails_at \in 1..4 :
            predict(processes, << "w", "o", "o", "d" >>, 30, decoded, fails_at)
    \/ reload_model_from_firebase
    \/ \E data_ready \in BOOLEAN, old_loss \in { 10 }, new_loss \in { 12, 13 },
          uploaded \in BOOLEAN :
            weekly_model_update(data_ready, old_loss, new_loss, uploaded)

SpecService == Init /\ [][NextService]_vars

(***************************************************************************)
(* The claims about predict_from_data (specification Spec).                *)
(***************************************************************************)
\* The call has returned (a result or the sentinel).
Returned == pc = "returned"

\* The number of records of the pool that contain a parameter set for the
\* process and carry a quality score of at least 5 for it.
QualifyingCount(pool, pt) ==
    Cardinality({ i \in 1..Len(pool) :
                    /\ "processes" \in DOMAIN pool[i]
                    /\ pt \in DOMAIN pool[i]["processes"]
                    /\ "qualityScores" \in DOMAIN pool[i]
                    /\ pt \in DOMAIN pool[i]["qualityScores"]
                    /\ pool[i]["qualityScores"][pt] >= 5 })

\* C1: predict_from_data returns the sentinel (None, 0.0, notes saying
\* insufficient data) exactly when fewer than 3 records of the pool both contain
\* the requested process and have a quality score >= 5 for it, whatever the
\* target power and the other records; otherwise it returns a prediction, and it
\* never raises.
C1_SentinelIffTooFewQualifying ==
    /\ pc # "raised"
    /\ Returned =>
          IF QualifyingCount(experiments, process_type) < 3
          THEN /\ predictions = None
               /\ confidence = 0
               /\ notes = << [ part |-> "insufficient",
                               data_points |->
                                   QualifyingCount(experiments, process_type) ] >>
          ELSE predictions # None

\* C1's case: the sentinel for a pool of at least three records of which fewer
\* than three qualify, asked with a target power.
C1_Witness ==
    /\ Returned
    /\ Len(experiments) >= 3
    /\ QualifyingCount(experiments, process_type) = 2
    /\ target_power # None
    /\ predictions = None

\* C2: every prediction returned by predict_from_data has power in [10,100],
\* speed in [50,500] and passes in [1,20].
C2_OutputsInDomain ==
    (Returned /\ predictions # None) =>
        /\ predictions[1].power >= 100 /\ predictions[1].power <= 1000
        /\ predictions[1].speed >= 50 /\ predictions[1].speed <= 500
        /\ predictions[1].passes >= 1 /\ predictions[1].passes <= 20

ScenarioPool ==
    /\ Len(experiments) = 5
    /\ \A i \in 1..5 :
          /\ "cutting" \in DOMAIN Get(experiments[i], "processes", << >>)
          /\ Get(Get(experiments[i], "qualityScores", << >>), "cutting", 0) = 8
          /\ Get(experiments[i], "laserPower", 0) = 20

ScenarioCall(watts) ==
    /\ Returned
    /\ ScenarioPool
    /\ process_type = "cutting"
    /\ target_power = Some(watts)

\* C4 as stated: with the scenario pool and target_power = 5 W the prediction is
\* rescaled: its power is higher than the unscaled base and the notes hold the
\* scaling entry.
C4_ScenarioRescaled ==
    ScenarioCall(5) =>
        /\ was_scaled
        /\ predictions[1].power > base_predictions[1].power
        /\ HasScalingNote(notes)

\* C4 amended: with the scenario pool and target_power = 5 W the power
\* difference of 15 W does not exceed power_tolerance = 20 W, so no rescaling
\* is applied: the returned parameters are the unscaled base and the notes hold
\* no scaling entry.
C4_ScenarioNotRescaled ==
    ScenarioCall(5) =>
        /\ ~was_scaled
        /\ predictions = base_predictions
        /\ predictions # None
        /\ ~HasScalingNote(notes)

C4_Witness == ScenarioCall(5) /\ predictions # None

\* The confidence of the same call had no rescaling been applied.
UnscaledConfidence ==
    LET relevant == RelevantExperiments(experiments, process_type)
    IN  calculate_confidence(Len(relevant), relevant, process_type, FALSE, 0)

\* C5 as stated: when rescaling is applied the confidence is strictly lower than
\* the confidence of the unscaled case with the identical pool.
C5_ScaledStrictlyLower ==
    (Returned /\ was_scaled) => confidence < UnscaledConfidence

\* C5 amended: when rescaling is applied the confidence is never higher than
\* that of the unscaled case with the identical pool, and it is strictly lower
\* whenever the unscaled confidence is above the floor of 0.55.
C5_ScaledLowerAboveFloor ==
    (Returned /\ was_scaled) =>
        /\ confidence <= UnscaledConfidence
        /\ UnscaledConfidence > 55 => confidence < UnscaledConfidence

C5_Witness ==
    /\ Returned
    /\ was_scaled
    /\ UnscaledConfidence > 55
    /\ confidence < UnscaledConfidence

\* The data point count that the notes report.
NotesDataPoints ==
    { notes[i].data_points : i \in { j \in 1..Len(notes) : notes[j].part = "data" } }

\* C6 as stated: with the scenario pool and target_power = 20 W the confidence
\* is at least 0.65 with the medium tier label, 5 data points are reported and
\* no rescaling is applied.
C6_ScenarioMediumConfidence ==
    ScenarioCall(20) =>
        /\ confidence >= 65
        /\ notes[1].text = "Orta guvenilirlik"
        /\ NotesDataPoints = { 5 }
        /\ ~was_scaled
        /\ ~HasScalingNote(notes)

\* C6 amended: with the scenario pool and target_power = 20 W the confidence is
\* between 0.55 and 0.60, below 0.65 (0.68 * 0.8 = 0.544, times at most 1.1
\* for gold standard data), so the notes carry the low tier label; 5 data
\* points are reported and no rescaling is applied.
C6_ScenarioLowConfidence ==
    ScenarioCall(20) =>
        /\ confidence >= 55 /\ confidence <= 60
        /\ notes[1].text = "Dusuk guvenilirlik"
        /\ NotesDataPoints = { 5 }
        /\ ~was_scaled
        /\ ~HasScalingNote(notes)

C6_Witness == ScenarioCall(20) /\ predictions # None /\ confidence = 55

\* The qualifying records of the last call, the sum of their laser powers, and
\* the target power times their number: ratio = TargetN / SourceSum.
Relevant == RelevantExperiments(experiments, process_type)

SourceSum == SumSeq(LaserPowers(Relevant))

TargetN == target_power[1] * Len(Relevant)

\* C7 as stated: when rescaling is applied with ratio = target_power /
\* source_power, the pass count is the base pass count plus 1 if ratio < 0.7,
\* the base pass count minus 1 (never below 1) if ratio > 1.3, and unchanged
\* otherwise.
C7_PassesAdjustedBothWays ==
    (Returned /\ was_scaled /\ SourceSum > 0) =>
        predictions[1].passes =
            IF 10 * TargetN < 7 * SourceSum THEN base_predictions[1].passes + 1
            ELSE IF 10 * TargetN > 13 * SourceSum
            THEN Max(1, base_predictions[1].passes - 1)
            ELSE base_predictions[1].passes

\* C7 amended: when rescaling is applied with ratio = target_power /
\* source_power (target and average source power positive), the pass count is
\* the base pass count plus 1, capped at 10, if ratio < 0.5, and the base pass
\* count otherwise: it is never decreased.  With a target or an average source
\* power that is not positive the base parameters are returned unchanged.
C7_PassesRaisedBelowHalf ==
    (Returned /\ was_scaled) =>
        IF SourceSum > 0 /\ TargetN > 0
        THEN predictions[1].passes =
                 IF 2 * TargetN < SourceSum
                 THEN Min(10, base_predictions[1].passes + 1)
                 ELSE base_predictions[1].passes
        ELSE predictions = base_predictions

\* C7's case: a rescaling with ratio in [0.5, 0.7) that leaves the passes alone.
C7_Witness ==
    /\ Returned
    /\ was_scaled
    /\ SourceSum > 0
    /\ 2 * TargetN >= SourceSum
    /\ 10 * TargetN < 7 * SourceSum
    /\ predictions[1].passes = base_predictions[1].passes

\* The weighted median: the least value at which the cumulative weight, in
\* order of value, reaches half the total weight.
WeightedMedian(values, weights) ==
    LET Cumulative(v) ==
            SumSeq([ i \in 1..Len(values) |->
                       IF values[i] <= v THEN weights[i] ELSE 0 ])
    IN  SetMin({ v \in Range(values) : 2 * Cumulative(v) >= SumSeq(weights) })

\* The pool [(passes=1, w=0.1), (passes=3, w=0.8), (passes=5, w=0.1)]: weights
\* 5, 40 and 5.
ExampleRecord(passes, quality, approve_count) ==
    [ processes     |-> [ cutting |-> Params(50, 300, passes) ],
      qualityScores |-> [ cutting |-> quality ],
      approveCount  |-> approve_count ]

ExamplePool ==
    << ExampleRecord(1, 5, 0), ExampleRecord(3, 10, 60), ExampleRecord(5, 5, 0) >>

\* C8 as stated: the predicted pass count before rescaling is the weighted
\* median of the qualifying records' pass counts; it is always a pass count that
\* occurs in the pool, and for [(1,0.1),(3,0.8),(5,0.1)] it is 3.
C8_PassesWeightedMedian ==
    /\ calculate_average_params(ExamplePool, "cutting").passes = 3
    /\ (Returned /\ predictions # None) =>
          LET passes_list == ParamList(Relevant, process_type, "passes")
          IN  /\ base_predictions[1].passes =
                     WeightedMedian(passes_list, Weights4(Relevant, process_type))
              /\ base_predictions[1].passes \in Range(passes_list)

\* C8 amended: the predicted pass count before rescaling is the weighted mean
\* of the qualifying records' pass counts (weight = quality + 0.5 * approvals,
\* times 1.5 for gold standard records), rounded to the nearest integer and
\* clamped to [1,10]; it need not occur in the pool; for
\* [(1,0.1),(3,0.8),(5,0.1)] it is 3.
C8_PassesRoundedWeightedMean ==
    /\ calculate_average_params(ExamplePool, "cutting").passes = 3
    /\ (Returned /\ predictions # None) =>
          LET passes_list == ParamList(Relevant, process_type, "passes")
              weights     == Weights4(Relevant, process_type)
              sum         == WeightedSum(passes_list, weights)
              total       == SumSeq(weights)
          IN  \E r \in 0..(SetMax(Range(passes_list)) + 1) :
                  /\ 2 * Abs(r * total - sum) <= total
                  /\ base_predictions[1].passes = Max(1, Min(10, r))

\* C8's case: a base pass count that no record of the pool has.
C8_Witness ==
    /\ Returned
    /\ predictions # None
    /\ base_predictions[1].passes
           \notin Range(ParamList(Relevant, process_type, "passes"))

\* A percentage in tenths, clamped as the code clamps a power.
ClampPower(percent) == Max(100, Min(1000, 10 * percent))

\* C9: for every nonempty qualifying pool the weights that aggregate power and
\* speed are non-negative with a strictly positive total, so that the normalized
\* weights sum to 1 and nothing divides by zero, and the aggregate lies between
\* the smallest and the largest candidate value.
C9_ConvexCombination ==
    /\ pc # "raised"
    /\ \A pt \in ProcessTypes :
          LET pool    == RelevantExperiments(experiments, pt)
              weights == Weights4(pool, pt)
              total   == total_weight(pool, pt)
              powers  == ParamList(pool, pt, "power")
              speeds  == ParamList(pool, pt, "speed")
          IN  pool # << >> =>
                  /\ \A i \in 1..Len(pool) : weights[i] >= 0
                  /\ total > 0
                  /\ SetMin(Range(powers)) * total <= WeightedSum(powers, weights)
                  /\ WeightedSum(powers, weights) <= SetMax(Range(powers)) * total
                  /\ SetMin(Range(speeds)) * total <= WeightedSum(speeds, weights)
                  /\ WeightedSum(speeds, weights) <= SetMax(Range(speeds)) * total
    /\ (Returned /\ predictions # None) =>
          LET powers == ParamList(Relevant, process_type, "power")
              speeds == ParamList(Relevant, process_type, "speed")
          IN  /\ ClampPower(SetMin(Range(powers))) <= base_predictions[1].power
              /\ base_predictions[1].power <= ClampPower(SetMax(Range(powers)))
              /\ SetMin(Range(speeds)) <= base_predictions[1].speed
              /\ base_predictions[1].speed <= SetMax(Range(speeds))

\* C9's case: an aggregate strictly between the smallest and the largest
\* candidate power, from records of different weights.
C9_Witness ==
    /\ Returned
    /\ predictions # None
    /\ Cardinality(Range(Weights4(Relevant, process_type))) > 1
    /\ base_predictions[1].power
           > ClampPower(SetMin(Range(ParamList(Relevant, process_type, "power"))))
    /\ base_predictions[1].power
           < ClampPower(SetMax(Range(ParamList(Relevant, process_type, "power"))))

(***************************************************************************)
(* The claim about the static fallback (specification SpecFallback).       *)
(***************************************************************************)
\* C10: the static fallback yields a parameter set for every material, every
\* thickness and each of the three process types, with no error outcome; a
\* material that matches no table key receives the generic default constants.
C10_FallbackAlwaysYields ==
    (fallback_call # None
        /\ fallback_call[1].process \in { "cutting", "engraving", "scoring" }) =>
        /\ fallback_result[1].status = "ok"
        /\ fallback_result[1].params # None
        /\ LET material == Strip(Lower(fallback_call[1].material))
           IN  (ExactMatches(material) = { } /\ SubstringMatches(material) = { }) =>
                   get_diode_material_params(fallback_call[1].material)
                       = DefaultMaterialParams

\* A call of one of the three static functions of main.py.
StaticCall ==
    /\ fallback_call # None
    /\ fallback_call[1].fn = "static_algorithm"
    /\ fallback_call[1].process \in { "cutting", "engraving", "scoring" }

\* C11: every result of the static functions (cutting, engraving, scoring), for
\* any material and thickness, has power in [10,100], speed in [50,500] and
\* passes in [1,20].
C11_StaticResultsInDomain ==
    StaticCall =>
        /\ fallback_result[1].status = "ok"
        /\ fallback_result[1].params.power >= 100
        /\ fallback_result[1].params.power <= 1000
        /\ fallback_result[1].params.speed >= 50
        /\ fallback_result[1].params.speed <= 500
        /\ fallback_result[1].params.passes >= 1
        /\ fallback_result[1].params.passes <= 20

\* C11's case: a 10 mm cut whose computed speed is below the range and comes
\* back as the lower limit.
C11_Witness ==
    /\ StaticCall
    /\ fallback_call[1].process = "cutting"
    /\ fallback_call[1].thickness = 100
    /\ fallback_result[1].params.speed = 50

(***************************************************************************)
(* The claims about the feature encoder (specification SpecEncoder).       *)
(***************************************************************************)
\* The returned call of the encoder is a call of fn.
EncoderCalled(fn) == encoder_call # None /\ encoder_call[1].fn = fn

\* The lowered and stripped material name of the encode call.
EncodedMaterial == Strip(Lower(encoder_call[1].material_type))

\* The first four components of a feature vector for the properties props.
PropertyComponents(props) ==
    << FloatOf(props.density, 300), FloatOf(props.thermal, 250),
       FloatOf(props.melt, 100), FloatOf(props.absorb, 100) >>

\* C12 as stated: for every material name that is not a key of the table (after
\* lowercasing and trimming) encode returns the default property components
\* (0.70/3.0, 0.15/2.5, 0.0, 0.80) in the first four dimensions.
C12_DefaultForEveryNonKey ==
    (EncoderCalled("encode") /\ PropertyExactMatches(EncodedMaterial) = { }) =>
        SubSeq(encoder_result[1], 1, 4)
            = << FloatOf(70, 300), FloatOf(15, 250), FloatZero, FloatOf(80, 100) >>

\* C12 amended: for every material name that (after lowercasing and trimming) is
\* not a key of the table, contains no key and is contained in no key, encode
\* returns the default property components in the first four dimensions; a name
\* that is not a key but contains a key or is contained in one receives the
\* properties of the first such key in table order.
C12_DefaultForUnmatched ==
    (EncoderCalled("encode") /\ PropertyExactMatches(EncodedMaterial) = { }) =>
        LET partial == { i \in 1..Len(MATERIAL_PROPERTIES) :
                           \/ Contains(EncodedMaterial, MATERIAL_PROPERTIES[i][1])
                           \/ Contains(MATERIAL_PROPERTIES[i][1], EncodedMaterial) }
        IN  SubSeq(encoder_result[1], 1, 4) =
                IF partial = { }
                THEN << FloatOf(70, 300), FloatOf(15, 250), FloatZero,
                        FloatOf(80, 100) >>
                ELSE PropertyComponents(
                         MATERIAL_PROPERTIES[CHOOSE i \in partial :
                                                 \A j \in partial : i <= j][2])

\* C12's case: a name that matches no key at all is encoded with the defaults.
C12_Witness ==
    /\ EncoderCalled("encode")
    /\ encoder_call[1].material_type = << "g", "r", "a", "n", "i", "t", "e" >>
    /\ encoder_result[1][1] = FloatOf(70, 300)
    /\ encoder_result[1][4] = FloatOf(80, 100)

\* The trailing dimensions (is_cutting, is_engraving, is_scoring) that are 1.
SetDimensions ==
    { k \in 7..9 : encoder_result[1][k] = FloatOf(1, 1) }

\* The dimension of a process.
ProcessDimension(p) ==
    IF p = "cutting" THEN 7 ELSE IF p = "engraving" THEN 8 ELSE 9

\* C13 as stated: for any process value passed to encode, exactly one of the
\* three trailing dimensions is 1 and the other two are 0, and the set dimension
\* is the one of the given process.
C13_OneHotForAnyProcess ==
    EncoderCalled("encode") =>
        /\ \A k \in 7..9 : encoder_result[1][k] \in { FloatZero, FloatOf(1, 1) }
        /\ SetDimensions = { ProcessDimension(encoder_call[1].process_type) }

\* C13 amended: for each of the process values cutting, engraving and scoring,
\* exactly one of the three trailing dimensions is 1 and the other two are 0,
\* and the set dimension is the one of the given process; for any other process
\* value all three trailing dimensions are 0.
C13_OneHotForKnownProcess ==
    EncoderCalled("encode") =>
        /\ \A k \in 7..9 : encoder_result[1][k] \in { FloatZero, FloatOf(1, 1) }
        /\ SetDimensions =
               IF encoder_call[1].process_type \in { "cutting", "engraving", "scoring" }
               THEN { ProcessDimension(encoder_call[1].process_type) }
               ELSE { }

C13_Witness ==
    /\ EncoderCalled("encode")
    /\ encoder_call[1].process_type = "engraving"
    /\ SetDimensions = { 8 }

\* The places of the records of a batch that have every key encode_batch reads.
CompleteRecords(firebase_data) ==
    { i \in 1..Len(firebase_data) : SampleKeys \subseteq DOMAIN firebase_data[i] }

\* C14: encode_batch skips every record that lacks a feature key or a target
\* key: X, y_power, y_speed and y_passes have the same number of rows, the number
\* of records that had all the keys, and row i of each comes from the same
\* record.
C14_BatchRowsAligned ==
    (EncoderCalled("encode_batch") /\ encoder_result[1].status = "ok") =>
        LET arrays == encoder_result[1].arrays[1]
            n      == Cardinality(CompleteRecords(encoder_call[1].firebase_data))
        IN  /\ Len(arrays.X) = n
            /\ Len(arrays.y_power) = n
            /\ Len(arrays.y_speed) = n
            /\ Len(arrays.y_passes) = n
            /\ \A i \in 1..n :
                  /\ arrays.y_power[i].rec = arrays.X[i].rec
                  /\ arrays.y_speed[i].rec = arrays.X[i].rec
                  /\ arrays.y_passes[i].rec = arrays.X[i].rec

\* C15: encode_batch raises its error if and only if no record of the input
\* yields a usable sample (the empty input included).
C15_RaisesIffNoUsableSample ==
    EncoderCalled("encode_batch") =>
        (encoder_result[1].status = "ValueError"
            <=> CompleteRecords(encoder_call[1].firebase_data) = { })

\* The float32 product passes_norm * 20.0 of the decode call.
PassesProduct == FloatMul(encoder_call[1].passes_norm, 20)

\* C16: decode_predictions returns, for any normalized inputs (also below 0 or
\* above 1), power in [10,100], speed in [50,500] and an integer passes in [1,20]
\* that is the clamped nearest integer of passes_norm * 20.
C16_DecodedInRange ==
    EncoderCalled("decode_predictions") =>
        /\ FloatCompare(encoder_result[1].power, 10, 1) >= 0
        /\ FloatCompare(encoder_result[1].power, 100, 1) <= 0
        /\ FloatCompare(encoder_result[1].speed, 50, 1) >= 0
        /\ FloatCompare(encoder_result[1].speed, 500, 1) <= 0
        /\ encoder_result[1].passes \in 1..20
        /\ IF PassesProduct.sign <= 0
           THEN encoder_result[1].passes = 1
           ELSE \E r \in 0..31 :
                    /\ r = 0 \/ FloatCompare(PassesProduct, 2 * r - 1, 2) >= 0
                    /\ FloatCompare(PassesProduct, 2 * r + 1, 2) <= 0
                    /\ encoder_result[1].passes = Max(1, Min(20, r))

\* C16's case: inputs below 0 and above 1 are decoded to the limits.
C16_Witness ==
    /\ EncoderCalled("decode_predictions")
    /\ encoder_call[1].power_norm = FloatOf(3, 2)
    /\ encoder_call[1].speed_norm = FloatOf(-1, 2)
    /\ encoder_call[1].passes_norm = FloatOf(3, 2)
    /\ encoder_result[1].power = FloatOf(100, 1)
    /\ encoder_result[1].speed = FloatOf(50, 1)
    /\ encoder_result[1].passes = 20

\* The complete records of the catalog whose targets are in range: power in
\* [10,100], speed in [50,500], passes in [1,20].
InRangeRecords ==
    { i \in CompleteRecords(BatchCatalog) :
          /\ BatchCatalog[i]["targetPower"] \in 100..1000
          /\ BatchCatalog[i]["targetSpeed"] \in 50..500
          /\ BatchCatalog[i]["targetPasses"] \in 1..20 }

\* The decode call was given the normalized targets of record i of the catalog.
DecodedTargetsOf(i) ==
    /\ EncoderCalled("decode_predictions")
    /\ << encoder_call[1].power_norm, encoder_call[1].speed_norm,
          encoder_call[1].passes_norm >> = NormalizedTargets(BatchCatalog[i])

\* C17 as stated: for targets in range, decode_predictions applied to the
\* normalization of encode_batch returns the original power, speed and passes.
C17_RoundTripExact ==
    \A i \in InRangeRecords :
        DecodedTargetsOf(i) =>
            /\ FloatCompare(encoder_result[1].power, BatchCatalog[i]["targetPower"], 10) = 0
            /\ FloatCompare(encoder_result[1].speed, BatchCatalog[i]["targetSpeed"], 1) = 0
            /\ encoder_result[1].passes = BatchCatalog[i]["targetPasses"]

\* C17 amended: for targets in range, decode_predictions applied to the
\* normalization of encode_batch returns the original passes, and a power and a
\* speed that equal the originals up to the rounding of float32 arithmetic (a
\* relative error of at most one millionth), not always the very same value.
C17_RoundTripUpToRounding ==
    \A i \in InRangeRecords :
        DecodedTargetsOf(i) =>
            LET power == BatchCatalog[i]["targetPower"]
                speed == BatchCatalog[i]["targetSpeed"]
                m     == 1000 * 1000
            IN  /\ FloatCompare(encoder_result[1].power, power * (m - 1), 10 * m) >= 0
                /\ FloatCompare(encoder_result[1].power, power * (m + 1), 10 * m) <= 0
                /\ FloatCompare(encoder_result[1].speed, speed * (m - 1), m) >= 0
                /\ FloatCompare(encoder_result[1].speed, speed * (m + 1), m) <= 0
                /\ encoder_result[1].passes = BatchCatalog[i]["targetPasses"]

\* C17's case: a round trip that returns the passes, and a power that is not
\* the original one.
C17_Witness ==
    \E i \in InRangeRecords :
        /\ DecodedTargetsOf(i)
        /\ encoder_result[1].passes = BatchCatalog[i]["targetPasses"]
        /\ FloatCompare(encoder_result[1].power, BatchCatalog[i]["targetPower"], 10) # 0

(***************************************************************************)
(* The claims about the data quality service (specification SpecQuality).  *)
(***************************************************************************)
\* The returned call of the data quality service is a call of fn.
QualityCalled(fn) == quality_call # None /\ quality_call[1].fn = fn

\* The records at the places S of a list, in the order of the list.
Picked(records, S) ==
    [ k \in 1..Cardinality(S) |->
        records[CHOOSE i \in S : Cardinality({ j \in S : j <= i }) = k] ]

\* C18: for any input list, method (iqr, zscore or unknown) and threshold,
\* detect_outliers returns (clean, outliers) such that every input record is in
\* exactly one of the two lists, no record is added or lost, and each list keeps
\* the relative order of the input.
C18_OutliersPartitionInput ==
    QualityCalled("detect_outliers") =>
        LET input == quality_call[1].experiments
            places == 1..Len(input)
        IN  \E S \in SUBSET places :
                /\ quality_result[1].outliers = Picked(input, S)
                /\ quality_result[1].clean = Picked(input, places \ S)

\* C18's case: a call with a method that detect_outliers does not know that
\* puts records in both lists.
C18_Witness ==
    /\ QualityCalled("detect_outliers")
    /\ quality_call[1].method = "mad"
    /\ Len(quality_call[1].experiments) = 3
    /\ quality_result[1].outliers # << >>
    /\ quality_result[1].clean # << >>

\* The places in the matrix of the rows of the record at place i of a list.
OwnRows(records, i) ==
    LET before == SumSeq([ j \in 1..(i - 1) |-> n_processes(records[j]) ])
    IN  (before + 1)..(before + n_processes(records[i]))

\* The rows that the method of the call flags, a z-score that equals the
\* threshold decided as ties says.
MethodMask(ties) ==
    LET features == features_matrix(quality_call[1].experiments)
    IN  IF quality_call[1].method = "zscore"
        THEN detect_outliers_zscore(features, quality_call[1].threshold, ties)
        ELSE detect_outliers_iqr(features, quality_call[1].threshold)

\* C19: detect_outliers puts a record in the outlier list if and only if at
\* least one of the record's own process rows is flagged by the chosen method;
\* the rows of other records never decide its flag, also when records without
\* processes are interleaved, and a record without processes is never an outlier.
C19_OutlierIffOwnRowFlagged ==
    QualityCalled("detect_outliers") =>
        LET input  == quality_call[1].experiments
            places == 1..Len(input)
        IN  \E ties \in BOOLEAN :
                LET flagged == { i \in places :
                                   \E k \in OwnRows(input, i) : MethodMask(ties)[k] }
                IN  /\ quality_result[1].outliers = Picked(input, flagged)
                    /\ quality_result[1].clean = Picked(input, places \ flagged)
                    /\ \A i \in places : n_processes(input[i]) = 0 => i \notin flagged

\* C19's case: a record without processes ahead of an outlier and of a clean
\* record with processes.
C19_Witness ==
    /\ QualityCalled("detect_outliers")
    /\ quality_call[1].experiments
           = << QualityCatalog[3], QualityCatalog[2], QualityCatalog[1] >>
    /\ quality_call[1].method = "iqr"
    /\ quality_result[1].outliers = << QualityCatalog[2] >>
    /\ quality_result[1].clean = << QualityCatalog[3], QualityCatalog[1] >>

\* C20: augment_data(records, factor = 1) returns exactly the original records,
\* in the same order and unchanged, with no synthetic record added.
C20_FactorOneReturnsOriginals ==
    (QualityCalled("augment_data") /\ quality_call[1].augmentation_factor = 1) =>
        quality_result[1] = quality_call[1].experiments

C20_Witness ==
    /\ QualityCalled("augment_data")
    /\ quality_call[1].augmentation_factor = 1
    /\ Len(quality_call[1].experiments) = 3
    /\ quality_result[1] = quality_call[1].experiments

(***************************************************************************)
(* The effects of the power rescaling (specification Spec).                *)
(***************************************************************************)
\* The relevant records of the returned call.
ReturnedRelevant == RelevantExperiments(experiments, process_type)

\* The scaling formula of _scale_by_power was applied to the parameters.
ParametersRescaled ==
    /\ was_scaled
    /\ SumSeq(LaserPowers(ReturnedRelevant)) > 0
    /\ target_power[1] > 0

\* The confidence was computed with a scaling factor below 1.
PenaltyApplied ==
    scaling_factor(was_scaled, PowerDifferenceN(ReturnedRelevant, target_power),
                   Len(ReturnedRelevant)) < 100

\* The notes hold the scaling entry.
ScalingNoted == \E i \in 1..Len(notes) : notes[i].part = "scaling"

\* C27: the effects of the power rescaling are all-or-none: for every pool and
\* target power, either the parameters are rescaled, the scaling penalty is
\* applied to the confidence and the notes hold the scaling entry, or none of
\* the three happens.
C27_RescalingAllOrNone ==
    (pc = "returned" /\ predictions # None) =>
        /\ ParametersRescaled <=> PenaltyApplied
        /\ PenaltyApplied <=> ScalingNoted

RecordInvariant(exp) ==
    /\ { "materialThickness", "laserPower", "processes" } \subseteq DOMAIN exp
    /\ exp["materialThickness"] \in 5..100
    /\ exp["laserPower"] \in 2..40
    /\ \A p \in DOMAIN exp["processes"] :
          /\ { "power", "speed", "passes" } \subseteq DOMAIN exp["processes"][p]
          /\ exp["processes"][p]["power"] \in 5..100
          /\ exp["processes"][p]["speed"] \in 50..500
          /\ exp["processes"][p]["passes"] \in 1..20

\* C22: every synthetic record that augment_data derives from an original that
\* satisfies the ExperimentRecord invariant satisfies it too.
C22_SyntheticKeepsInvariant ==
    (/\ QualityCalled("augment_data")
     /\ \A i \in 1..Len(quality_call[1].experiments) :
           RecordInvariant(quality_call[1].experiments[i])) =>
        \A j \in 1..Len(quality_result[1]) : RecordInvariant(quality_result[1][j])

\* The synthetic records of the returned call in the order of their creation.
CreatedByCall ==
    synthetic_experiments(quality_call[1].experiments,
                          quality_call[1].augmentation_factor, quality_call[1].seed)

\* C23: augment_data(records, factor) returns the n originals first, in input
\* order, followed only by synthetic records whose provenance is that of their
\* source record with _synthetic appended; the length of the result is n plus
\* the number of perturbations that succeeded, between n and n * factor, a
\* failed perturbation being dropped without an error and without a retry.
C23_OriginalsThenTaggedSynthetics ==
    QualityCalled("augment_data") =>
        LET input      == quality_call[1].experiments
            n          == Len(input)
            per_record == quality_call[1].augmentation_factor - 1
            result     == quality_result[1]
            succeeded  == { k \in 1..(n * per_record) : CreatedByCall[k] # None }
            sources    == Picked([ k \in 1..(n * per_record) |->
                                     input[((k - 1) \div per_record) + 1] ], succeeded)
        IN  /\ Len(result) = n + Cardinality(succeeded)
            /\ n <= Len(result)
            /\ Len(result) <= n * quality_call[1].augmentation_factor
            /\ SubSeq(result, 1, n) = input
            /\ \A r \in 1..Cardinality(succeeded) :
                  Get(result[n + r], "dataSource", << >>)
                      = Get(sources[r], "dataSource", << "user" >>) \o << "_synthetic" >>

\* C23's case: a call in which some perturbations succeed and some fail.
C23_Witness ==
    /\ QualityCalled("augment_data")
    /\ quality_call[1].augmentation_factor = 3
    /\ quality_call[1].experiments = << QualityCatalog[2], QualityCatalog[3] >>
    /\ Len(quality_result[1]) = 4
    /\ quality_result[1][3]["dataSource"] = << "researcher", "_synthetic" >>

(***************************************************************************)
(* The claims about balance_classes, validate_experiment and the state of  *)
(* the quality service (specification SpecQuality).                        *)
(***************************************************************************)

\* How often a record occurs in a list.
Occurrences(records, e) == Cardinality({ i \in 1..Len(records) : records[i] = e })

\* How many records of a list belong to a class of the balancing key, a record
\* that lacks the key belonging to the class 'unknown'.
ClassCount(records, target_key, class_value) ==
    Cardinality({ i \in 1..Len(records) :
                    Get(records[i], target_key, << "unknown" >>) = class_value })

\* C24: for a nonempty input balance_classes does not raise; with 'oversample'
\* the result contains every input record and every class of the balancing
\* key, records lacking the key included, has the count of the largest class;
\* with 'undersample' the result is a sub-collection of the input and every
\* class has the count of the smallest class.
C24_ClassesBalanced ==
    (QualityCalled("balance_classes")
     /\ quality_call[1].method \in { "oversample", "undersample" }
     /\ quality_call[1].experiments # << >>) =>
        LET input    == quality_call[1].experiments
            key      == quality_call[1].target_key
            balanced == quality_result[1].balanced
            classes  == { Get(input[i], key, << "unknown" >>) : i \in 1..Len(input) }
            counts   == { ClassCount(input, key, c) : c \in classes }
        IN  /\ quality_result[1].status = "ok"
            /\ quality_call[1].method = "oversample" =>
                 /\ \A i \in 1..Len(input) :
                      Occurrences(balanced, input[i]) >= Occurrences(input, input[i])
                 /\ \A c \in classes : ClassCount(balanced, key, c) = SetMax(counts)
            /\ quality_call[1].method = "undersample" =>
                 /\ \A i \in 1..Len(balanced) :
                      Occurrences(balanced, balanced[i]) <= Occurrences(input, balanced[i])
                 /\ \A c \in classes : ClassCount(balanced, key, c) = SetMin(counts)

\* The checks of validate_experiment that a record violates: the kind of the
\* check and the field or process it is about.
Violations(experiment) ==
    LET processes == IF "processes" \in DOMAIN experiment THEN experiment["processes"]
                     ELSE << >>
        Outside(p, k, low, high) ==
            k \in DOMAIN processes[p] /\ (processes[p][k] < low \/ processes[p][k] > high)
    IN  { << "Missing required field", f >> :
            f \in { g \in { "materialType", "materialThickness", "laserPower", "processes" } :
                      g \notin DOMAIN experiment \/ Falsy(experiment, g) } }
        \cup { << "Laser power out of range", "" >> : x \in
                 { y \in { 1 } : "laserPower" \in DOMAIN experiment
                                 /\ (experiment["laserPower"] < 2
                                     \/ experiment["laserPower"] > 40) } }
        \cup { << "Thickness out of range", "" >> : x \in
                 { y \in { 1 } : "materialThickness" \in DOMAIN experiment
                                 /\ (experiment["materialThickness"] < 1
                                     \/ experiment["materialThickness"] > 100) } }
        \cup { << "power out of range", p >> :
                 p \in { q \in DOMAIN processes : Outside(q, "power", 5, 100) } }
        \cup { << "speed out of range", p >> :
                 p \in { q \in DOMAIN processes : Outside(q, "speed", 50, 500) } }
        \cup { << "passes out of range", p >> :
                 p \in { q \in DOMAIN processes : Outside(q, "passes", 1, 20) } }

\* C25: validate_experiment returns ok = True exactly when its error list is
\* empty; the list has one entry for every violated check and no other entry;
\* a laser power of 50 gives ok = False and an entry that names the laser
\* power, the value and the range 2-40W; the record is left as it was.
C25_OneErrorPerViolation ==
    QualityCalled("validate_experiment") =>
        LET experiment == quality_call[1].experiment
            errors     == quality_result[1].errors
        IN  /\ quality_result[1].is_valid <=> errors = << >>
            /\ Len(errors) = Cardinality(Violations(experiment))
            /\ \A v \in Violations(experiment) :
                 \E i \in 1..Len(errors) :
                    errors[i].message = v[1] /\ errors[i].subject = v[2]
            /\ ("laserPower" \in DOMAIN experiment /\ experiment["laserPower"] = 50) =>
                 /\ ~quality_result[1].is_valid
                 /\ \E i \in 1..Len(errors) :
                      errors[i] = Message("Laser power out of range", "", 50, "2-40W")
            /\ caller_experiments = Some(<< experiment >>)

\* A record with a laser power of 50 and four bad process parameters was
\* validated: five range errors next to the missing fields.
C25_Witness ==
    /\ QualityCalled("validate_experiment")
    /\ "laserPower" \in DOMAIN quality_call[1].experiment
    /\ quality_call[1].experiment["laserPower"] = 50
    /\ "materialType" \notin DOMAIN quality_call[1].experiment
    /\ Len(quality_result[1].errors) = 6
    /\ ~quality_result[1].is_valid

\* C26: no call on the shared quality service changes the state of the
\* service: its statistics are what they were after construction.
C26_ServiceStateUnchanged ==
    outlier_stats = [ total_checked |-> 0, outliers_detected |-> 0, outliers_removed |-> 0 ]

(***************************************************************************)
(* The claims about the server process (specification SpecService).        *)
(***************************************************************************)
\* The last step of the server was the handler or job fn.
Handled(fn) == service_outcome # None /\ service_outcome[1].handler = fn

\* C28: /predict answers with exactly one parameter set for each requested
\* process, all computed by the same source; when the transfer model is not
\* usable or its prediction fails on any process, all are computed by the
\* static algorithm and the answer says 'static_algorithm' with confidence
\* 0.60; it says 'transfer_learning', with confidence 0.85, only if the model
\* predicted every requested process.
C28_OneSourceForAllProcesses ==
    Handled("predict") =>
        LET call     == service_outcome[1]
            answer   == call.response
            complete == call.tl_ready /\ call.fails_at > Len(call.processes)
            AllBy(source) ==
                \A p \in DOMAIN answer.predictions : answer.predictions[p].by = source
        IN  /\ DOMAIN answer.predictions = Range(call.processes)
            /\ AllBy("model") \/ AllBy("static")
            /\ ~complete => /\ AllBy("static")
                            /\ answer.dataSource = "static_algorithm"
                            /\ answer.confidenceScore = 60
            /\ answer.dataSource = "transfer_learning" =>
                   complete /\ AllBy("model") /\ answer.confidenceScore = 85
            /\ answer.confidenceScore = 85 => answer.dataSource = "transfer_learning"

\* The trained model predicted two of three processes and failed on the third:
\* the answer is the static algorithm's.
C28_Witness ==
    /\ Handled("predict")
    /\ service_outcome[1].tl_ready
    /\ Len(service_outcome[1].processes) = 3
    /\ service_outcome[1].fails_at = 3
    /\ service_outcome[1].response.dataSource = "static_algorithm"
    /\ DOMAIN service_outcome[1].response.predictions = { "cutting", "engraving", "scoring" }

\* C29: after weekly_model_update judged the fine-tuned model degraded, the
\* model in memory is not the fine-tuned one but the model of the storage (or
\* the model that served before the job), and one 'rollback' entry was
\* appended to the update history; a 'deployed' entry is appended and
\* last_update advanced only after a successful upload.
C29_DegradedModelRolledBack ==
    Handled("weekly_model_update") =>
        LET job == service_outcome[1]
        IN  /\ job.judgement = "degraded" =>
                 /\ hybrid_model[1].weights \in { job.stored, job.previous }
                 /\ hybrid_model[1].weights # job.fine_tuned
                 /\ Len(update_history) = Len(job.history) + 1
                 /\ update_history[Len(update_history)].status = "rollback"
            /\ (update_history # job.history
                /\ update_history[Len(update_history)].status = "deployed") => job.uploaded
            /\ last_update # job.last_update => job.uploaded

\* C30: after a successful reload-model-from-firebase the transfer model in
\* memory is the downloaded model and is reported as trained, whatever
\* instance existed before.
C30_ReloadServesDownloaded ==
    (Handled("reload_model_from_firebase") /\ service_outcome[1].status = "success") =>
        /\ transfer_model # None
        /\ service_outcome[1].in_memory = service_outcome[1].downloaded
        /\ service_outcome[1].is_trained

=============================================================================
